---- MODULE Spec2Model ----
(***************************************************************************)
(* Model of the identity-verification intake flow:                         *)
(*   - the multi-step form controller and submission coordinator (App),    *)
(*   - the video-capture component (VideoVerification),                    *)
(*   - the image-capture component's camera acquisition (CameraCapture).   *)
(* Every handler, timer callback, media event and promise continuation is  *)
(* one action: the browser runs them one at a time, to completion, and a   *)
(* React state update made by a handler is committed (with the effects it  *)
(* triggers) before the next one runs.  Strings are sequences of           *)
(* one-character strings.                                                  *)
(***************************************************************************)
EXTENDS Integers, Sequences, FiniteSets, Bags, TLC

(***************************************************************************)
(* Bounds of the model.                                                    *)
(***************************************************************************)
MaxNameLen == 3
MaxSubs == 2
MaxExitSteps == 1
MaxRecorders == 2
MaxInvocations == 2
MaxStreams == 3
MaxFallbackTimers == 2
MaxShots == 1
MaxCaptured == 2
MaxCompressions == 1

(***************************************************************************)
(* Characters and strings.                                                 *)
(***************************************************************************)
Letters ==
  {"a","b","c","d","e","f","g","h","i","j","k","l","m","n","o","p","q","r",
   "s","t","u","v","w","x","y","z","A","B","C","D","E","F","G","H","I","J",
   "K","L","M","N","O","P","Q","R","S","T","U","V","W","X","Y","Z"}

Digits == {"0","1","2","3","4","5","6","7","8","9"}

\* The characters the regular-expression class \s matches, which are also the
\* characters String.prototype.trim() removes: space, tab, line feed, carriage
\* return, form feed, and (written as themselves) vertical tab, U+00A0, U+1680
\* and U+FEFF; the white-space characters from U+2000 on stand under their
\* code-point names.
Whitespace ==
  {" ", "\t", "\n", "\r", "\f", "", " ", " ", "﻿",
   "U+2000", "U+2001", "U+2002", "U+2003", "U+2004", "U+2005", "U+2006", "U+2007",
   "U+2008", "U+2009", "U+200A", "U+2028", "U+2029", "U+202F", "U+205F", "U+3000"}

Null == "null"

RECURSIVE Rep(_, _)
Rep(c, n) == IF n = 0 THEN <<>> ELSE <<c>> \o Rep(c, n - 1)

\* String.prototype.slice(0, n)
SliceTo(s, n) == SubSeq(s, 1, IF Len(s) < n THEN Len(s) ELSE n)

\* value.replace(/[^a-zA-Z\s]/g, '')
StripNonNameChars(s) == SelectSeq(s, LAMBDA c : c \in Letters \cup Whitespace)

\* value.replace(/\D/g, '')
StripNonDigits(s) == SelectSeq(s, LAMBDA c : c \in Digits)

RECURSIVE TrimStart(_)
TrimStart(s) ==
  IF s # <<>> /\ Head(s) \in Whitespace THEN TrimStart(Tail(s)) ELSE s

RECURSIVE TrimEnd(_)
TrimEnd(s) ==
  IF s # <<>> /\ s[Len(s)] \in Whitespace
  THEN TrimEnd(SubSeq(s, 1, Len(s) - 1)) ELSE s

\* String.prototype.trim()
Trim(s) == TrimEnd(TrimStart(s))

\* String.prototype.includes(' ')
IncludesSpace(s) == \E i \in 1..Len(s) : s[i] = " "

\* index of the first ' ' of s, or Len(s) + 1 when it has none
FirstSpace(s) ==
  IF IncludesSpace(s)
  THEN CHOOSE i \in 1..Len(s) : s[i] = " " /\ \A j \in 1..(i - 1) : s[j] # " "
  ELSE Len(s) + 1

\* const [first = '', ...lastParts] = fullName.split(' ')
SplitFirst(s) == SubSeq(s, 1, FirstSpace(s) - 1)

\* lastParts.join(' ')
SplitLast(s) == SubSeq(s, FirstSpace(s) + 1, Len(s))

(***************************************************************************)
(* Validation functions of the form controller.                            *)
(***************************************************************************)
MsgNameShort == "Full name must contain at least two characters"
MsgNameParts == "Please enter both first and last name"
MsgPhone == "Phone number must be exactly 10 digits"
MsgSSN == "SSN must be exactly 9 digits"
MsgEmail == "Please enter a valid email address"

PhoneDigits == 10
SSNDigits == 9

validateFullName(fullName) ==
  LET sanitizedName == Trim(StripNonNameChars(fullName))
  IN IF Len(sanitizedName) < 2 THEN MsgNameShort
     ELSE IF ~IncludesSpace(sanitizedName) THEN MsgNameParts
     ELSE Null

validatePhoneNumber(phoneNumber) ==
  IF Len(StripNonDigits(phoneNumber)) # PhoneDigits THEN MsgPhone ELSE Null

\* validateSSN with the comparison loosened to "at most"
validateSSNAtMost(ssn) ==
  IF Len(StripNonDigits(ssn)) > SSNDigits THEN MsgSSN ELSE Null

validateSSN(ssn) ==
  IF Len(StripNonDigits(ssn)) # SSNDigits THEN MsgSSN ELSE Null

\* /^[^\s@]+@[^\s@]+\.[^\s@]+$/.test(email)
EmailRegexTest(email) ==
  \E i \in 2..Len(email) : \E j \in (i + 2)..(Len(email) - 1) :
     /\ email[i] = "@"
     /\ email[j] = "."
     /\ \A k \in 1..Len(email) :
          k # i => (email[k] \notin Whitespace /\ email[k] # "@")

validateEmail(email) == IF ~EmailRegexTest(email) THEN MsgEmail ELSE Null

(***************************************************************************)
(* State.                                                                  *)
(***************************************************************************)
VARIABLES
  \* ---- App (form controller and submission coordinator) ----
  step,                   \* 'personal' | 'documents' | 'video' | 'complete'
  personalInfo,           \* the PersonalInfo record
  personalInfoErrors,     \* the PersonalInfoErrors record
  frontId, backId,        \* captured images, Null when absent
  isSubmitting,
  showVideoVerification,
  subs,                   \* the runs of handleSubmission, by slot
  lastOp,                 \* the handler that ran last (for handlers whose
                          \* outcome may leave no other trace in the state)
  exitSteps,              \* tasks run since the modal began the exit animation
                          \* it is playing
  \* ---- VideoVerification (one mounted instance at a time) ----
  vvMounted,              \* an instance is mounted (shown, or playing its exit)
  onCompleteInfo,         \* the personalInfo in the closure of the onComplete
                          \* prop the instance was rendered with last
  currentStep,            \* 'initial' | 'error' | 'retry'
  firstVideo,             \* blob of the first recording, 0 when null
  isRecording,
  isWebcamReady,
  isFaceDetected,
  isMediaRecorderSupported,
  vvWebcam,               \* the <Webcam>: "none" | "pending" | "ready"
  faceLoop,               \* the checkFacePosition loop is scheduled
  mediaRecorderRef,       \* the recorder the ref holds (its blob), 0 when null
  recordingTimeoutRef,    \* the timeout the ref holds (its recording), 0 when null
  recordingStartTimeRef,  \* TRUE when the ref holds a start time
  recs,                   \* the MediaRecorders with an event still to deliver
  timers,                 \* the recordings whose 7 s timeout is armed
  recCount,               \* recordings started by the mounted instance
  completeCalls,          \* onComplete invocations, by instance (Ages)
  \* ---- CameraCapture (one instance) ----
  camLife,                \* "absent" | "mounted" | "closed"
  isFrontCamera,
  isVideoReady,
  cameraError,
  useNativeCamera,
  retryCount,
  isInitializing,
  streamRef,              \* native stream id held by streamRef, 0 when null
  streams,                \* native streams acquired so far, by id
  videoSrc,               \* srcObject of the <video>, 0 when none
  metadataPending,        \* the <video> has a loadedmetadata event to deliver
  webcam,                 \* react-webcam: "none" | "pending" | "ready" | "failed"
  initTimer,              \* the armed 100 ms timer (its closure), or NoTimer
  fallbackTimers,         \* the armed 3 s timers (their closures)
  invs,                   \* invocations of initializeNativeCamera in flight
  platform,               \* what getUserMedia does with each constraint set
  \* ---- CameraCapture: lighting and capture ----
  forceCapture,
  isCardDetected,
  lightingQuality,
  isCapturing,
  lastFrame,              \* the frame the lighting loop analysed last, <<>> if none
  shots,                  \* runs of captureImage past their first await
  compressing,            \* Compressor objects whose callback is to come
  captured,               \* calls of onCapture
  captureOutcome,         \* how the capture that ended last ended
  isIOSSafari,            \* what captureImage makes of navigator.userAgent
  lightLoop,              \* a tick of detectLightingAndCard is scheduled
  \* ---- SupabaseHealthMonitor (the page's one instance) ----
  supabase,               \* the field holds the client (init() assigns it)
  isConnected,
  healthCheckInterval,    \* the interval the field holds, 0 when null
  intervals,              \* the intervals set and not cleared
  monCalls,               \* the awaits of the monitor's methods outstanding
  monStopped,             \* stop() has returned and init() was not called since
  healthChecks,           \* periodic health checks performed
  monUploads              \* the paths testFileUpload has uploaded to

appVars ==
  <<step, personalInfo, personalInfoErrors, frontId, backId, isSubmitting,
    showVideoVerification, subs, lastOp, exitSteps>>

\* the state of App proper
appState ==
  <<step, personalInfo, personalInfoErrors, frontId, backId, isSubmitting,
    showVideoVerification, subs>>

\* what the instance has from <AnimatePresence> and from App
vvProps == <<vvMounted, onCompleteInfo>>

vvVars ==
  <<vvProps, currentStep, firstVideo, isRecording, isWebcamReady, isFaceDetected,
    isMediaRecorderSupported, vvWebcam, faceLoop, mediaRecorderRef,
    recordingTimeoutRef, recordingStartTimeRef, recs, timers, recCount,
    completeCalls>>

capVars ==
  <<forceCapture, isCardDetected, lightingQuality, isCapturing, lastFrame,
    shots, compressing, captured, captureOutcome, isIOSSafari>>

\* acquisition and display of the camera
camBase ==
  <<camLife, isFrontCamera, isVideoReady, cameraError, useNativeCamera,
    retryCount, isInitializing, streamRef, streams, videoSrc, metadataPending,
    webcam, initTimer, fallbackTimers, invs, platform>>

camVars == <<camBase, capVars, lightLoop>>

monVars ==
  <<supabase, isConnected, healthCheckInterval, intervals, monCalls,
    monStopped, healthChecks, monUploads>>

vars == <<appVars, vvVars, camVars, monVars>>

(***************************************************************************)
(* The tasks of App and of the modal.                                      *)
(***************************************************************************)
\* the modal is mounted and App no longer renders it: <AnimatePresence> keeps
\* it while the exit animation of its root element plays
InExit == vvMounted /\ ~showVideoVerification

\* One task of the event loop, running the handler op.  An exit animation
\* lasts a fraction of a second: at most MaxExitSteps tasks run during one.
Task(op) ==
  /\ lastOp' = op
  /\ InExit => exitSteps < MaxExitSteps
  /\ exitSteps' = IF InExit THEN exitSteps + 1 ELSE 0

\* a task that ends the exit animation or finds none
NoExit(op) ==
  /\ lastOp' = op
  /\ exitSteps' = 0

(***************************************************************************)
(* App: personal-details step.                                             *)
(***************************************************************************)
STEP_NAMES ==
  [PERSONAL_DATA |-> "personal", ID_DOCUMENTS |-> "documents",
   VIDEO_VERIFICATION |-> "video", APPLICATION_COMPLETE |-> "complete"]

InitPersonalInfo ==
  [firstName |-> <<>>, lastName |-> <<>>, email |-> <<>>, address |-> <<>>,
   city |-> <<>>, state |-> "Arizona", phoneNumber |-> <<>>, ssn |-> <<>>]

InitPersonalInfoErrors ==
  [fullName |-> Null, phoneNumber |-> Null, ssn |-> Null, email |-> Null]

\* every string over alphabet of length at most n
RECURSIVE StringsUpTo(_, _)
StringsUpTo(alphabet, n) ==
  IF n = 0 THEN {<<>>}
  ELSE LET shorter == StringsUpTo(alphabet, n - 1)
       IN shorter \cup {s \o <<c>> : s \in shorter, c \in alphabet}

\* what a user can put in the full-name field
NameInputs ==
  StringsUpTo({"a", " "}, MaxNameLen)
    \cup { <<"1">>, <<"a", "1", " ", "b">>, <<"a", "\t", "b">>,
           <<" ", "a", " ", "b">>, <<"a", "\r", "b", " ", "c">> }

\* what a user can put in the phone field
PhoneInputs ==
  {Rep("5", n) : n \in {0, 9, 10, 11}}
    \cup {<<"(">> \o Rep("5", 3) \o <<")", " ">> \o Rep("5", 3) \o <<"-">> \o Rep("5", 4)}

\* what a user can put in the SSN field
SSNInputs ==
  {Rep("1", n) : n \in {0, 8, 9, 10}}
    \cup {Rep("1", 3) \o <<"-">> \o Rep("1", 2) \o <<"-">> \o Rep("1", 4)}

\* what a user can put in the email field
EmailInputs ==
  { <<>>, <<"a","@","b",".","c">>, <<"a","@","b">>, <<"@","b",".","c">>,
    <<"a"," ","@","b",".","c">>, <<"a","@","b","@","c",".","d">>,
    <<"a","\f","@","b",".","c">> }

AddressInputs == { <<>>, <<"x">> }

\* two of the options of the State <select>
StateInputs == {"Arizona", "Texas"}

\* a profile that passes the validation, for the runs past the first step
GoodName == {<<"a", " ", "b">>}
GoodPhone == {Rep("5", 10)}
GoodSSN == {Rep("1", 9)}
GoodEmail == {<<"a","@","b",".","c">>}

\* <input> Full Name, onChange
FullNameChange(inputs) ==
  /\ step = STEP_NAMES.PERSONAL_DATA
  /\ \E value \in inputs :
       LET fullName == StripNonNameChars(value)
       IN /\ personalInfo' = [personalInfo EXCEPT
                                !.firstName = SplitFirst(fullName),
                                !.lastName = SplitLast(fullName)]
          /\ personalInfoErrors' = [personalInfoErrors EXCEPT
                                      !.fullName = validateFullName(fullName)]
  /\ Task("other")
  /\ UNCHANGED <<step, frontId, backId, isSubmitting, showVideoVerification, subs>>
  /\ UNCHANGED <<vvVars, camVars, monVars>>

\* <input> Phone Number, onChange
PhoneChange(inputs) ==
  /\ step = STEP_NAMES.PERSONAL_DATA
  /\ \E raw \in inputs :
       LET value == SliceTo(StripNonDigits(raw), 10)
       IN /\ personalInfo' = [personalInfo EXCEPT !.phoneNumber = value]
          /\ personalInfoErrors' = [personalInfoErrors EXCEPT
                                      !.phoneNumber = validatePhoneNumber(value)]
  /\ Task("other")
  /\ UNCHANGED <<step, frontId, backId, isSubmitting, showVideoVerification, subs>>
  /\ UNCHANGED <<vvVars, camVars, monVars>>

\* <input> Email, onChange
EmailChange(inputs) ==
  /\ step = STEP_NAMES.PERSONAL_DATA
  /\ \E email \in inputs :
       /\ personalInfo' = [personalInfo EXCEPT !.email = email]
       /\ personalInfoErrors' = [personalInfoErrors EXCEPT
                                   !.email = validateEmail(email)]
  /\ Task("other")
  /\ UNCHANGED <<step, frontId, backId, isSubmitting, showVideoVerification, subs>>
  /\ UNCHANGED <<vvVars, camVars, monVars>>

\* <input> Address, onChange
AddressChange(inputs) ==
  /\ step = STEP_NAMES.PERSONAL_DATA
  /\ \E address \in inputs :
       personalInfo' = [personalInfo EXCEPT !.address = address]
  /\ Task("other")
  /\ UNCHANGED <<step, personalInfoErrors, frontId, backId, isSubmitting,
                 showVideoVerification, subs>>
  /\ UNCHANGED <<vvVars, camVars, monVars>>

\* <select> State, onChange
StateChange(inputs) ==
  /\ step = STEP_NAMES.PERSONAL_DATA
  /\ \E state \in inputs :
       personalInfo' = [personalInfo EXCEPT !.state = state]
  /\ Task("other")
  /\ UNCHANGED <<step, personalInfoErrors, frontId, backId, isSubmitting,
                 showVideoVerification, subs>>
  /\ UNCHANGED <<vvVars, camVars, monVars>>

\* <input> SSN, onChange
SSNChange(inputs) ==
  /\ step = STEP_NAMES.PERSONAL_DATA
  /\ \E raw \in inputs :
       LET value == SliceTo(StripNonDigits(raw), 9)
       IN /\ personalInfo' = [personalInfo EXCEPT !.ssn = value]
          /\ personalInfoErrors' = [personalInfoErrors EXCEPT
                                      !.ssn = validateSSN(value)]
  /\ Task("other")
  /\ UNCHANGED <<step, frontId, backId, isSubmitting, showVideoVerification, subs>>
  /\ UNCHANGED <<vvVars, camVars, monVars>>

\* the Next button of the personal-details form is disabled
PersonalNextDisabled ==
  \E k \in DOMAIN personalInfoErrors : personalInfoErrors[k] # Null

\* onSubmit of the personal-details form; viaButton: the submit event comes
\* from the Next button, which must be enabled then
handlePersonalInfoSubmit(ways) ==
  /\ step = STEP_NAMES.PERSONAL_DATA
  /\ \E viaButton \in ways : viaButton => ~PersonalNextDisabled
  /\ LET fullNameError ==
           validateFullName(personalInfo.firstName \o <<" ">> \o personalInfo.lastName)
         phoneError == validatePhoneNumber(personalInfo.phoneNumber)
         ssnError == validateSSN(personalInfo.ssn)
         emailError == validateEmail(personalInfo.email)
     IN /\ personalInfoErrors' =
             [fullName |-> fullNameError, phoneNumber |-> phoneError,
              ssn |-> ssnError, email |-> emailError]
        /\ step' = IF fullNameError = Null /\ phoneError = Null
                      /\ ssnError = Null /\ emailError = Null
                   THEN STEP_NAMES.ID_DOCUMENTS
                   ELSE step
  /\ Task("handlePersonalInfoSubmit")
  /\ UNCHANGED <<personalInfo, frontId, backId, isSubmitting,
                 showVideoVerification, subs>>
  /\ UNCHANGED <<vvVars, camVars, monVars>>

(***************************************************************************)
(* App: document-upload step.                                              *)
(***************************************************************************)
\* the image files a capture can hand over
ImageFiles == {"img1", "img2"}

\* the images of the runs past the documents step
GoodImage == {"img1"}

\* <FileUpload side="front" onFileAccepted={setFrontId}>
FrontAccepted(files) ==
  /\ step = STEP_NAMES.ID_DOCUMENTS
  /\ \E file \in files : frontId' = file
  /\ Task("other")
  /\ UNCHANGED <<step, personalInfo, personalInfoErrors, backId, isSubmitting,
                 showVideoVerification, subs>>
  /\ UNCHANGED <<vvVars, camVars, monVars>>

\* <FileUpload side="back" onFileAccepted={setBackId}>
BackAccepted(files) ==
  /\ step = STEP_NAMES.ID_DOCUMENTS
  /\ \E file \in files : backId' = file
  /\ Task("other")
  /\ UNCHANGED <<step, personalInfo, personalInfoErrors, frontId, isSubmitting,
                 showVideoVerification, subs>>
  /\ UNCHANGED <<vvVars, camVars, monVars>>

\* the Next button of the documents form is disabled
DocumentsNextDisabled == frontId = Null \/ backId = Null

\* handleDocumentsSubmit testing the front image alone
handleDocumentsSubmitFrontOnly(ways) ==
  /\ step = STEP_NAMES.ID_DOCUMENTS
  /\ \E viaButton \in ways : viaButton => ~DocumentsNextDisabled
  /\ step' = IF frontId # Null THEN STEP_NAMES.VIDEO_VERIFICATION ELSE step
  /\ Task("handleDocumentsSubmit")
  /\ UNCHANGED <<personalInfo, personalInfoErrors, frontId, backId, isSubmitting,
                 showVideoVerification, subs>>
  /\ UNCHANGED <<vvVars, camVars, monVars>>

\* onSubmit of the documents form; viaButton as above
handleDocumentsSubmit(ways) ==
  /\ step = STEP_NAMES.ID_DOCUMENTS
  /\ \E viaButton \in ways : viaButton => ~DocumentsNextDisabled
  /\ step' = IF frontId # Null /\ backId # Null
             THEN STEP_NAMES.VIDEO_VERIFICATION
             ELSE step
  /\ Task("handleDocumentsSubmit")
  /\ UNCHANGED <<personalInfo, personalInfoErrors, frontId, backId, isSubmitting,
                 showVideoVerification, subs>>
  /\ UNCHANGED <<vvVars, camVars, monVars>>

\* Back button of the documents step
DocumentsBack ==
  /\ step = STEP_NAMES.ID_DOCUMENTS
  /\ step' = STEP_NAMES.PERSONAL_DATA
  /\ Task("other")
  /\ UNCHANGED <<personalInfo, personalInfoErrors, frontId, backId, isSubmitting,
                 showVideoVerification, subs>>
  /\ UNCHANGED <<vvVars, camVars, monVars>>

\* Back button of the video step
VideoBack ==
  /\ step = STEP_NAMES.VIDEO_VERIFICATION
  /\ ~(showVideoVerification \/ isSubmitting)
  /\ step' = STEP_NAMES.ID_DOCUMENTS
  /\ Task("other")
  /\ UNCHANGED <<personalInfo, personalInfoErrors, frontId, backId, isSubmitting,
                 showVideoVerification, subs>>
  /\ UNCHANGED <<vvVars, camVars, monVars>>

(***************************************************************************)
(* App: submission coordinator (handleSubmission).                         *)
(***************************************************************************)
FileNames ==
  {"personal_info.txt", "id_front.jpg", "id_back.jpg",
   "verification_1.webm", "verification_2.webm"}

\* `application_${timestamp}_${randomString}`; runs tracked together have
\* different keys
folderName(s) == [prefix |-> "application_", key |-> s]

\* a variant of filePath that gives every file a folder of its own
filePathOwnFolder(s, fileName) ==
  <<[prefix |-> "application_", key |-> <<s, fileName>>], fileName>>

\* `${folderName}/${fileName}`
filePath(s, fileName) == <<folderName(s), fileName>>

\* the list handed to createSignedUrls, without the videos
SignedUrlPathsImagesOnly(s) ==
  { <<folderName(s), "personal_info.txt">>, <<folderName(s), "id_front.jpg">>,
    <<folderName(s), "id_back.jpg">> }

\* the list handed to createSignedUrls
SignedUrlPaths(s) ==
  { <<folderName(s), "personal_info.txt">>, <<folderName(s), "id_front.jpg">>,
    <<folderName(s), "id_back.jpg">>, <<folderName(s), "verification_1.webm">>,
    <<folderName(s), "verification_2.webm">> }

MsgUrls == "Failed to generate URLs for uploaded files"
MsgGeneric == "There was an error submitting your application. Please try again."
\* error.message of the error the storage, resp. the database, answered with
MsgUpload == "<message of the storage error>"
MsgInsert == "<message of the database error>"

NumUploads == Cardinality(FileNames)

\* The runs of handleSubmission, in the order of their start: slot s holds
\* the s-th run, and at most MaxSubs runs are started.  pc is "idle" before
\* the run starts, "uploading", "urls" or "insert" while it awaits that
\* answer, "ok" or "failed" when it has ended, and "over" once App.startRecording
\* has dropped the record of an ended run.
\* The five uploads differ in their path only, so their answers are counted:
\* up.ok of them are fulfilled and held by the awaited Promise.all, up.failed
\* rejected it, up.pending are not yet answered.
\* info: the personalInfo of the closure the run executes in
IdleSub ==
  [pc |-> "idle", up |-> [ok |-> 0, failed |-> 0, pending |-> 0],
   uploaded |-> {}, urls |-> {}, inserts |-> 0, row |-> Null,
   alerts |-> <<>>, videos |-> <<0, 0>>, info |-> InitPersonalInfo]

\* the run of slot s has ended and has no request outstanding
SubEnded(s) ==
  /\ subs[s].pc \in {"ok", "failed"}
  /\ subs[s].up.pending = 0

\* a run can still be started
SubSlotAvailable == \E s \in 1..MaxSubs : subs[s].pc = "idle"

NewSubSlot ==
  CHOOSE s \in 1..MaxSubs :
    subs[s].pc = "idle" /\ \A t \in 1..(s - 1) : subs[t].pc # "idle"

\* handleSubmission up to its first await: the five uploads are issued
SubmissionStarted(videos, info) ==
  [subs EXCEPT ![NewSubSlot] =
     [IdleSub EXCEPT !.pc = "uploading",
                     !.up = [ok |-> 0, failed |-> 0, pending |-> NumUploads],
                     !.uploaded = {filePath(NewSubSlot, f) : f \in FileNames},
                     !.videos = videos,
                     !.info = info]]

\* a Promise.all that leaves one of the uploads out
AllUploadedButOne(up) == up.ok >= NumUploads - 1

\* Promise.all over the five uploads is fulfilled
AllUploaded(up) == up.ok = NumUploads

\* what the storage, resp. the database, answers a request with: success,
\* an error that is an Error instance, or an error that is a plain object
\* (which of the two, the SDK decides)
Outcomes == {"ok", "error", "errorObject"}

\* a variant of UploadRejected whose catch block raises no alert
UploadRejectedSilently(run, outcome) ==
  [run EXCEPT !.pc = "failed",
              !.videos = <<0, 0>>,
              !.up = [ok |-> 0, failed |-> 1, pending |-> run.up.pending - 1]]

\* uploadFile throws the error it was answered with and Promise.all rejects:
\* catch (alert of error.message if the error is an Error, of the generic
\* text otherwise), finally; the rejected Promise.all keeps no result and
\* the run no argument, the uploads not yet answered stay outstanding
UploadRejected(run, outcome) ==
  [run EXCEPT !.pc = "failed",
              !.alerts = Append(@, IF outcome = "error" THEN MsgUpload
                                                        ELSE MsgGeneric),
              !.videos = <<0, 0>>,
              !.up = [ok |-> 0, failed |-> 1, pending |-> run.up.pending - 1]]

\* the storage collaborator answers one upload, accepting it or not
UploadSettles(outcomes) ==
  /\ \E s \in 1..MaxSubs, outcome \in outcomes :
       /\ subs[s].up.pending > 0
       /\ IF subs[s].pc # "uploading"
          THEN \* Promise.all has already rejected: nobody awaits this upload
               /\ subs' = [subs EXCEPT ![s].up.pending = @ - 1]
               /\ UNCHANGED isSubmitting
          ELSE IF outcome # "ok"
          THEN /\ subs' = [subs EXCEPT ![s] = UploadRejected(@, outcome)]
               /\ isSubmitting' = FALSE
          ELSE LET up2 == [subs[s].up EXCEPT !.ok = @ + 1, !.pending = @ - 1]
               IN /\ subs' = IF AllUploaded(up2)
                             THEN \* createSignedUrls is issued
                                  [subs EXCEPT ![s].up = up2, ![s].pc = "urls",
                                               ![s].urls = SignedUrlPaths(s)]
                             ELSE [subs EXCEPT ![s].up = up2]
                  /\ UNCHANGED isSubmitting
  /\ Task("other")
  /\ UNCHANGED <<step, personalInfo, personalInfoErrors, frontId, backId,
                 showVideoVerification>>
  /\ UNCHANGED <<vvVars, camVars, monVars>>

\* the row handed to insert, from the personalInfo of the run's closure
ApplicationRow(info) ==
  [first_name |-> info.firstName, last_name |-> info.lastName,
   address |-> info.address, city |-> info.city,
   state |-> info.state, phone_number |-> info.phoneNumber,
   status |-> "pending"]

\* WITH CHECK of the policy "Allow public job application submissions"; the
\* fields of a row are strings, never NULL
SatisfiesInsertPolicy(row) ==
  /\ row.first_name # <<>>
  /\ row.last_name # <<>>
  /\ row.address # <<>>
  /\ row.city # <<>>
  /\ row.state # ""
  /\ row.phone_number # <<>>

\* the storage collaborator answers createSignedUrls
SignedUrlsSettle(answers) ==
  /\ \E s \in 1..MaxSubs, hasData \in answers :
       /\ subs[s].pc = "urls"
       /\ IF hasData
          THEN \* the insert is issued
               /\ subs' = [subs EXCEPT ![s].pc = "insert", ![s].inserts = @ + 1,
                             ![s].row = ApplicationRow(subs[s].info)]
               /\ UNCHANGED isSubmitting
          ELSE /\ subs' = [subs EXCEPT ![s].pc = "failed",
                             ![s].alerts = Append(@, MsgUrls)]
               /\ isSubmitting' = FALSE
  /\ Task("other")
  /\ UNCHANGED <<step, personalInfo, personalInfoErrors, frontId, backId,
                 showVideoVerification>>
  /\ UNCHANGED <<vvVars, camVars, monVars>>

\* the database collaborator answers the insert
InsertSettles(outcomes) ==
  /\ \E s \in 1..MaxSubs, outcome \in outcomes :
       /\ subs[s].pc = "insert"
       /\ IF outcome = "ok"
          THEN /\ subs' = [subs EXCEPT ![s].pc = "ok"]
               /\ step' = STEP_NAMES.APPLICATION_COMPLETE
          ELSE /\ subs' = [subs EXCEPT ![s].pc = "failed",
                             ![s].alerts = Append(@, IF outcome = "error"
                                                     THEN MsgInsert
                                                     ELSE MsgGeneric)]
               /\ UNCHANGED step
       /\ isSubmitting' = FALSE
  /\ Task("other")
  /\ UNCHANGED <<personalInfo, personalInfoErrors, frontId, backId,
                 showVideoVerification>>
  /\ UNCHANGED <<vvVars, camVars, monVars>>

(***************************************************************************)
(* VideoVerification.  A MediaRecorder keeps the handlers it was given at  *)
(* startRecording, and with them the currentStep, the firstVideo and the   *)
(* onComplete prop of the render that created it; its stop event is        *)
(* delivered after stop() returns, also to a recorder whose component is   *)
(* gone.  The modal is a child of <AnimatePresence>: when App stops        *)
(* rendering it, the instance stays mounted, with the props it had, until  *)
(* the exit animation of its root element has ended.  Inside the modal the  *)
(* camera panel (with the <Webcam>) and the error panel are the children of *)
(* an <AnimatePresence mode="wait">: when currentStep asks for the other    *)
(* panel, the panel that is mounted stays, as it was rendered last, until   *)
(* its exit animation has ended, and only then is the other one mounted.    *)
(* The <Webcam> is mounted exactly when vvWebcam is not "none".             *)
(***************************************************************************)
VIDEO_SUB_STEPS ==
  [FIRST_VIDEO_RECORDING |-> "initial", VIDEO_ERROR_DISPLAY |-> "error",
   SECOND_VIDEO_RECORDING |-> "retry", VERIFICATION_COMPLETE |-> "complete"]

\* recordings one instance may start; the n-th recording yields blob n
MaxRecordings == 3

\* the instance a recorder belongs to: 0 is the instance mounted last, k > 0
\* the k-th older instance that still has a recorder with an event to deliver
Ages == 0..MaxRecorders

\* closed: the user closed the surface while this recorder was recording
\* info: the personalInfo in the closure of the onComplete it will call
NewRecorder ==
  [st |-> "recording", age |-> 0, cStep |-> currentStep, cFirst |-> firstVideo,
   blob |-> recCount + 1, closed |-> FALSE, info |-> onCompleteInfo]

\* MediaRecorder.stop(), or the recorder going inactive: its stop event is queued
Stopped(rs, r) == (rs \ {r}) \cup {[r EXCEPT !.st = "stopping"]}

\* the tracks of the component's stream end: a recorder on it goes inactive
\* and has its stop event queued
StreamEnded(rs) ==
  {IF r.st = "recording" THEN [r EXCEPT !.st = "stopping"] ELSE r : r \in rs}

\* position of age a among the ages the recorders of rs carry
AgeRank(rs, a) == Cardinality({r.age : r \in {q \in rs : q.age <= a}})

\* a new instance is mounted: the instances that still have recorders grow older
Aged(rs) == {[r EXCEPT !.age = AgeRank(rs, r.age)] : r \in rs}

\* the component's state after it is unmounted (nothing of it is observable)
VVGone ==
  /\ currentStep' = VIDEO_SUB_STEPS.FIRST_VIDEO_RECORDING
  /\ firstVideo' = 0
  /\ isRecording' = FALSE
  /\ isWebcamReady' = FALSE
  /\ isFaceDetected' = FALSE
  /\ vvWebcam' = "none"
  /\ faceLoop' = FALSE
  /\ mediaRecorderRef' = 0
  /\ recordingTimeoutRef' = 0
  /\ recordingStartTimeRef' = FALSE
  /\ timers' = {}
  /\ recCount' = 0
  /\ isMediaRecorderSupported' = TRUE

\* cleanup on unmount: the timeout in the ref is cleared, an active recorder
\* is stopped, the <Webcam> releases its stream
VVUnmount(rs) ==
  /\ recs' = StreamEnded(rs)
  /\ VVGone

\* App.startRecording (Continue).  A modal that is playing its exit animation
\* is shown again, the same instance with its state; otherwise a new instance
\* is mounted.  The runs that have ended and the instances that can deliver
\* no more event leave no trace in the program; their records are dropped
\* here.
startRecordingApp(supports) ==
  /\ step = STEP_NAMES.VIDEO_VERIFICATION
  /\ ~isSubmitting
  /\ ~showVideoVerification
  /\ showVideoVerification' = TRUE
  /\ onCompleteInfo' = personalInfo
  /\ vvMounted' = TRUE
  /\ IF vvMounted
     THEN UNCHANGED <<isMediaRecorderSupported, recs, completeCalls,
                      currentStep, vvWebcam>>
     ELSE /\ \E hasMediaRecorder \in supports :
               isMediaRecorderSupported' = hasMediaRecorder
          /\ recs' = Aged(recs)
          /\ completeCalls' =
               [k \in Ages |->
                  IF \E r \in recs : AgeRank(recs, r.age) = k
                  THEN completeCalls[(CHOOSE r \in recs : AgeRank(recs, r.age) = k).age]
                  ELSE 0]
          /\ currentStep' = VIDEO_SUB_STEPS.FIRST_VIDEO_RECORDING
          /\ vvWebcam' = "pending"
  /\ subs' = [s \in 1..MaxSubs |->
                IF SubEnded(s)
                THEN [IdleSub EXCEPT !.pc = "over"] ELSE subs[s]]
  /\ NoExit("other")
  /\ UNCHANGED <<firstVideo, isRecording, isWebcamReady, isFaceDetected,
                 faceLoop, mediaRecorderRef, recordingTimeoutRef,
                 recordingStartTimeRef, timers, recCount>>
  /\ UNCHANGED <<step, personalInfo, personalInfoErrors, frontId, backId,
                 isSubmitting>>
  /\ UNCHANGED <<camVars, monVars>>

\* the recorders, when the user closes the surface
ClosedByUser(rs) ==
  {IF r.st = "recording" /\ r.age = 0 THEN [r EXCEPT !.closed = TRUE] ELSE r :
     r \in rs}

\* onClose (the X button of the modal): App stops rendering the modal, whose
\* exit animation starts
onCloseVideo ==
  /\ vvMounted
  /\ showVideoVerification
  /\ showVideoVerification' = FALSE
  /\ recs' = ClosedByUser(recs)
  /\ Task("other")
  /\ UNCHANGED <<vvProps, currentStep, firstVideo, isRecording, isWebcamReady,
                 isFaceDetected, isMediaRecorderSupported, vvWebcam, faceLoop,
                 mediaRecorderRef, recordingTimeoutRef, recordingStartTimeRef,
                 timers, recCount, completeCalls>>
  /\ UNCHANGED <<step, personalInfo, personalInfoErrors, frontId, backId,
                 isSubmitting, subs>>
  /\ UNCHANGED <<camVars, monVars>>

\* the exit animation of a modal that App no longer renders has ended:
\* <AnimatePresence> removes the instance, whose cleanup runs
ExitComplete ==
  /\ vvMounted
  /\ ~showVideoVerification
  /\ vvMounted' = FALSE
  /\ onCompleteInfo' = InitPersonalInfo
  /\ VVUnmount(recs)
  /\ NoExit("other")
  /\ UNCHANGED completeCalls
  /\ UNCHANGED <<appState, camVars, monVars>>

\* One call of checkFacePosition with a <video> to read: when the <video>
\* holds a decoded frame, isFaceDetected becomes what the skin-tone count of
\* the frame gives (faces: the results the frames give); in either case the
\* next call is scheduled.
FaceChecked(faces) ==
  /\ \/ UNCHANGED isFaceDetected
     \/ \E face \in faces : isFaceDetected' = face
  /\ faceLoop' = TRUE

\* <Webcam onUserMedia>: setIsWebcamReady(true).  When that changes
\* isWebcamReady, the effect on it runs, whose body ends with the first call
\* of checkFacePosition.
WebcamUserMedia(faces) ==
  /\ vvMounted
  /\ vvWebcam = "pending"
  /\ vvWebcam' = "ready"
  /\ isWebcamReady' = TRUE
  /\ IF isWebcamReady
     THEN UNCHANGED <<isFaceDetected, faceLoop>>
     ELSE FaceChecked(faces)
  /\ Task("other")
  /\ UNCHANGED <<currentStep, firstVideo, isRecording,
                 isMediaRecorderSupported, mediaRecorderRef, recordingTimeoutRef,
                 recordingStartTimeRef, recs, timers, recCount, completeCalls>>
  /\ UNCHANGED <<appState, vvProps, camVars, monVars>>

\* a tick of checkFacePosition (requestAnimationFrame): without a <Webcam>
\* it returns without rescheduling; with one whose <video> holds a decoded
\* frame it sets isFaceDetected
checkFacePosition(faces) ==
  /\ vvMounted
  /\ faceLoop
  /\ \/ /\ vvWebcam = "none"
        /\ faceLoop' = FALSE
        /\ UNCHANGED isFaceDetected
     \/ /\ vvWebcam = "ready"
        /\ \E face \in faces : isFaceDetected' = face
        /\ UNCHANGED faceLoop
  /\ Task("other")
  /\ UNCHANGED <<currentStep, firstVideo, isRecording, isWebcamReady,
                 isMediaRecorderSupported, vvWebcam, mediaRecorderRef,
                 recordingTimeoutRef, recordingStartTimeRef, recs, timers, recCount,
                 completeCalls>>
  /\ UNCHANGED <<appState, vvProps, camVars, monVars>>

\* the button Start Recording / Start Second Recording
startRecording ==
  /\ vvMounted
  /\ currentStep # VIDEO_SUB_STEPS.VIDEO_ERROR_DISPLAY
  /\ isMediaRecorderSupported
  /\ isFaceDetected
  /\ vvWebcam = "ready"
  /\ ~isRecording
  /\ recCount < MaxRecordings
  /\ Cardinality(recs) < MaxRecorders
  /\ recs' = recs \cup {NewRecorder}
  /\ recCount' = recCount + 1
  /\ mediaRecorderRef' = NewRecorder.blob
  /\ isRecording' = TRUE
  /\ recordingStartTimeRef' = TRUE
  /\ timers' = timers \cup {NewRecorder.blob}
  /\ recordingTimeoutRef' = NewRecorder.blob
  /\ Task("other")
  /\ UNCHANGED <<currentStep, firstVideo, isWebcamReady, isFaceDetected,
                 isMediaRecorderSupported, vvWebcam, faceLoop, completeCalls>>
  /\ UNCHANGED <<appState, vvProps, camVars, monVars>>

\* stopRecording, called while the timeouts in armed are armed
stopRecording(armed) ==
  /\ timers' = armed \ {recordingTimeoutRef}
  /\ recordingTimeoutRef' = 0
  /\ recs' = StreamEnded({r \in recs : r.age = 0 /\ r.blob = mediaRecorderRef})
               \cup {r \in recs : ~(r.age = 0 /\ r.blob = mediaRecorderRef)}
  /\ isRecording' = FALSE
  /\ mediaRecorderRef' = 0
  /\ recordingStartTimeRef' = FALSE

\* the callback of setTimeout(..., RECORDING_DURATION)
RecordingTimeout ==
  /\ vvMounted
  /\ \E t \in timers : stopRecording(timers \ {t})
  /\ Task("other")
  /\ UNCHANGED <<currentStep, firstVideo, isWebcamReady, isFaceDetected,
                 isMediaRecorderSupported, vvWebcam, faceLoop, recCount,
                 completeCalls>>
  /\ UNCHANGED <<appState, vvProps, camVars, monVars>>

\* updateProgress sees elapsed >= RECORDING_DURATION
updateProgress ==
  /\ vvMounted
  /\ recordingStartTimeRef
  /\ stopRecording(timers)
  /\ Task("other")
  /\ UNCHANGED <<currentStep, firstVideo, isWebcamReady, isFaceDetected,
                 isMediaRecorderSupported, vvWebcam, faceLoop, recCount,
                 completeCalls>>
  /\ UNCHANGED <<appState, vvProps, camVars, monVars>>

\* mediaRecorder.onerror; the recorder goes inactive and its stop event follows
onRecorderError ==
  /\ \E r \in recs :
       /\ r.st = "recording"
       /\ recs' = Stopped(recs, r)
  /\ isRecording' = FALSE
  /\ Task("other")
  /\ UNCHANGED <<currentStep, firstVideo, isWebcamReady, isFaceDetected,
                 isMediaRecorderSupported, vvWebcam, faceLoop, mediaRecorderRef,
                 recordingTimeoutRef, recordingStartTimeRef, timers, recCount,
                 completeCalls>>
  /\ UNCHANGED <<appState, vvProps, camVars, monVars>>

\* the button Start Again of the error panel, which is mounted when the
\* camera panel is not
StartAgain ==
  /\ vvMounted
  /\ vvWebcam = "none"
  /\ currentStep = VIDEO_SUB_STEPS.VIDEO_ERROR_DISPLAY
  /\ currentStep' = VIDEO_SUB_STEPS.SECOND_VIDEO_RECORDING
  /\ Task("other")
  /\ UNCHANGED <<firstVideo, isRecording, isWebcamReady, isFaceDetected,
                 isMediaRecorderSupported, vvWebcam, faceLoop, mediaRecorderRef,
                 recordingTimeoutRef, recordingStartTimeRef, recs, timers, recCount,
                 completeCalls>>
  /\ UNCHANGED <<appState, vvProps, camVars, monVars>>

\* the panel currentStep asks for is not the one that is mounted
PanelExiting ==
  (currentStep = VIDEO_SUB_STEPS.VIDEO_ERROR_DISPLAY) # (vvWebcam = "none")

\* The exit animation of the mounted panel has ended and the other panel is
\* mounted in its place: the camera panel goes with its <Webcam>, which
\* releases its stream, or comes with a new <Webcam>.
PanelExitComplete ==
  /\ vvMounted
  /\ PanelExiting
  /\ IF currentStep = VIDEO_SUB_STEPS.VIDEO_ERROR_DISPLAY
     THEN /\ vvWebcam' = "none"
          /\ recs' = StreamEnded(recs)
     ELSE /\ vvWebcam' = "pending"
          /\ UNCHANGED recs
  /\ Task("other")
  /\ UNCHANGED <<currentStep, firstVideo, isRecording, isWebcamReady,
                 isFaceDetected, isMediaRecorderSupported, faceLoop,
                 mediaRecorderRef, recordingTimeoutRef, recordingStartTimeRef,
                 timers, recCount, completeCalls>>
  /\ UNCHANGED <<appState, vvProps, camVars, monVars>>

\* handleVideoComplete: App stops rendering the modal and handleSubmission
\* starts, in the closure that holds info
handleVideoComplete(videos, info) ==
  /\ SubSlotAvailable
  /\ showVideoVerification' = FALSE
  /\ isSubmitting' = TRUE
  /\ subs' = SubmissionStarted(videos, info)

\* handleRecordingComplete(blob), with the currentStep, firstVideo and
\* onComplete of the render whose startRecording created the recorder (rec)
handleRecordingComplete(rec, rs) ==
  IF rec.cStep = VIDEO_SUB_STEPS.FIRST_VIDEO_RECORDING
  THEN /\ IF vvMounted /\ rec.age = 0
          THEN /\ firstVideo' = rec.blob
               /\ currentStep' = VIDEO_SUB_STEPS.VIDEO_ERROR_DISPLAY
          ELSE UNCHANGED <<firstVideo, currentStep>>
       /\ recs' = rs
       /\ UNCHANGED <<completeCalls, showVideoVerification, isSubmitting, subs>>
  ELSE IF rec.cStep = VIDEO_SUB_STEPS.SECOND_VIDEO_RECORDING /\ rec.cFirst # 0
  THEN \* onComplete({ video1: firstVideo, video2: blob })
       /\ completeCalls' = [completeCalls EXCEPT ![rec.age] = @ + 1]
       /\ handleVideoComplete(<<rec.cFirst, rec.blob>>, rec.info)
       /\ recs' = rs
       /\ UNCHANGED <<firstVideo, currentStep>>
  ELSE /\ recs' = rs
       /\ UNCHANGED <<firstVideo, currentStep, completeCalls,
                      showVideoVerification, isSubmitting, subs>>

\* mediaRecorder.onstop: the chunks make a blob, which may be empty
onRecorderStop(blobs) ==
  /\ \E r \in recs, nonEmpty \in blobs :
       /\ r.st = "stopping"
       /\ IF nonEmpty
          THEN handleRecordingComplete(r, recs \ {r})
          ELSE /\ recs' = recs \ {r}
               /\ UNCHANGED <<firstVideo, currentStep, completeCalls,
                              showVideoVerification, isSubmitting, subs>>
  /\ Task("other")
  /\ UNCHANGED <<vvProps, isRecording, isWebcamReady, isFaceDetected, faceLoop,
                 vvWebcam,
                 mediaRecorderRef, recordingTimeoutRef, recordingStartTimeRef,
                 timers, recCount, isMediaRecorderSupported>>
  /\ UNCHANGED <<step, personalInfo, personalInfoErrors, frontId, backId>>
  /\ UNCHANGED <<camVars, monVars>>

(***************************************************************************)
(* CameraCapture: the image-capture component.  It shows the camera either *)
(* through react-webcam (the <Webcam>, which acquires and releases its own *)
(* stream) or through a <video> fed by initializeNativeCamera.  Each       *)
(* action below is one event-loop task with the render it causes and the   *)
(* effects of that render.                                                 *)
(***************************************************************************)
MsgCameraGeneric == "Failed to access camera"
MsgNativeNotAllowed == "Camera permission denied. Please allow camera access."
MsgNativeNotFound == "No camera found on this device."
MsgNativeNotSupported == "Camera not supported in this browser."
MsgWebcamNotAllowed ==
  "Camera permission denied. Please allow camera access and try again."
MsgWebcamNotFound == "No camera found. Please check your device."
MsgWebcamOverconstrained == "Camera constraints not supported."

\* the names of the errors getUserMedia and react-webcam report
ErrorNames ==
  {"NotAllowedError", "NotFoundError", "NotSupportedError",
   "OverconstrainedError", "Unknown"}

\* the message initializeNativeCamera's catch block derives from error.name
nativeErrorMessage(name) ==
  IF name = "NotAllowedError" THEN MsgNativeNotAllowed
  ELSE IF name = "NotFoundError" THEN MsgNativeNotFound
  ELSE IF name = "NotSupportedError" THEN MsgNativeNotSupported
  ELSE MsgCameraGeneric

\* the message handleWebcamError derives from the error's name
webcamErrorMessage(name) ==
  IF name = "NotAllowedError" THEN MsgWebcamNotAllowed
  ELSE IF name = "NotFoundError" THEN MsgWebcamNotFound
  ELSE IF name = "OverconstrainedError" THEN MsgWebcamOverconstrained
  ELSE MsgCameraGeneric

RetryLimit == 2

\* the list of constraint sets, for the camera facing of the closure;
\* 0 stands for a dimension the set leaves out
getConstraintSets(front) ==
  LET facingMode == IF front THEN "user" ELSE "environment" IN
  << [facingMode |-> facingMode, width |-> 1920, height |-> 1080],
     [facingMode |-> facingMode, width |-> 1280, height |-> 720],
     [facingMode |-> facingMode, width |-> 1024, height |-> 576],
     [facingMode |-> facingMode, width |-> 0, height |-> 0] >>

NumConstraintSets == Len(getConstraintSets(FALSE))

\* what a platform's getUserMedia does with each constraint set of the list
Platforms == [1..NumConstraintSets -> BOOLEAN]

NoTimer == [armed |-> FALSE]

\* streamRef.current.getTracks().forEach(track => track.stop())
StopStream(ss, id) ==
  IF id = 0 THEN ss ELSE [ss EXCEPT ![id].live = FALSE]

LiveStreams == {s \in 1..Len(streams) : streams[s].live}

RemoveAt(seq, k) == SubSeq(seq, 1, k - 1) \o SubSeq(seq, k + 1, Len(seq))

\* the stream getUserMedia resolves with for the set under trial
AcquiredStreamOfFirstSet(inv) ==
  [live |-> TRUE, constraints |-> getConstraintSets(inv.isFrontCamera)[1]]

AcquiredStream(inv) ==
  [live |-> TRUE, constraints |-> getConstraintSets(inv.isFrontCamera)[inv.i]]

\* initializeNativeCamera from its call to its first await: the stream held
\* by streamRef is stopped and the first constraint set is requested
initializeNativeCamera(front) ==
  /\ Len(invs) < MaxInvocations
  /\ isInitializing' = TRUE
  /\ cameraError' = Null
  /\ streams' = StopStream(streams, streamRef)
  /\ streamRef' = 0
  /\ invs' = Append(invs, [i |-> 1, isFrontCamera |-> front])

\* The effect that runs detectLightingAndCard, after a commit: its cleanup
\* cancels the scheduled tick when isVideoReady, useNativeCamera or
\* forceCapture changed or the component is unmounted, and it starts the loop
\* again when isVideoReady is true.
LightingEffect == lightLoop' = (camLife' = "mounted" /\ isVideoReady')

\* The render that follows a handler which left the state at the given
\* values, with the effects whose dependencies changed: the initialise
\* effect re-arms its 100 ms timer, whose callback closes over this render;
\* the camera-switching effect starts initializeNativeCamera or clears
\* isVideoReady.  The <video> is mounted exactly in native mode and the
\* <Webcam> otherwise; a <Webcam> that is mounted, or whose constraints
\* change, requests the camera.
Render(front, ready, native, retry, error, initializing, cam) ==
  LET initDeps == native # useNativeCamera \/ front # isFrontCamera
                    \/ retry # retryCount
      switchDeps == front # isFrontCamera \/ native # useNativeCamera
  IN  /\ isFrontCamera' = front
      /\ useNativeCamera' = native
      /\ retryCount' = retry
      /\ initTimer' = IF initDeps
                      THEN [armed |-> TRUE, useNativeCamera |-> native,
                            isVideoReady |-> ready, retryCount |-> retry,
                            isFrontCamera |-> front]
                      ELSE initTimer
      /\ IF switchDeps /\ native
         THEN /\ initializeNativeCamera(front)
              /\ isVideoReady' = ready
         ELSE /\ isVideoReady' = IF switchDeps THEN FALSE ELSE ready
              /\ cameraError' = error
              /\ isInitializing' = initializing
              /\ UNCHANGED <<streamRef, streams, invs>>
      /\ webcam' = IF native THEN "none"
                   ELSE IF switchDeps THEN "pending" ELSE cam
      /\ videoSrc' = IF native THEN videoSrc ELSE 0
      /\ metadataPending' = IF native THEN metadataPending ELSE FALSE

\* the component is rendered for the first time: both effects run
CameraMount(platforms, browsers) ==
  /\ camLife = "absent"
  /\ camLife' = "mounted"
  /\ platform' \in platforms
  /\ isIOSSafari' \in browsers
  /\ webcam' = "pending"
  /\ initTimer' = [armed |-> TRUE, useNativeCamera |-> useNativeCamera,
                   isVideoReady |-> isVideoReady, retryCount |-> retryCount,
                   isFrontCamera |-> isFrontCamera]
  /\ isVideoReady' = FALSE
  /\ UNCHANGED <<isFrontCamera, cameraError, useNativeCamera, retryCount,
                 isInitializing, streamRef, streams, videoSrc,
                 metadataPending, fallbackTimers, invs>>
  /\ UNCHANGED <<forceCapture, isCardDetected, lightingQuality, isCapturing,
                 lastFrame, shots, compressing, captured, captureOutcome>>
  /\ UNCHANGED <<appVars, vvVars, monVars>>
  /\ LightingEffect

\* the 100 ms timer of the initialise effect
InitTimerFires ==
  /\ initTimer.armed
  /\ initTimer' = NoTimer
  /\ IF ~initTimer.useNativeCamera
     THEN /\ Len(fallbackTimers) < MaxFallbackTimers
          /\ fallbackTimers' =
               Append(fallbackTimers,
                      [isVideoReady |-> initTimer.isVideoReady,
                       retryCount |-> initTimer.retryCount])
          /\ UNCHANGED <<isInitializing, cameraError, streams, streamRef, invs>>
     ELSE /\ initializeNativeCamera(initTimer.isFrontCamera)
          /\ UNCHANGED fallbackTimers
  /\ UNCHANGED <<camLife, isFrontCamera, isVideoReady, useNativeCamera,
                 retryCount, videoSrc, metadataPending, webcam, platform>>
  /\ UNCHANGED <<appVars, vvVars, capVars, monVars>>
  /\ LightingEffect

\* the 3 s timer armed by the 100 ms timer; nothing ever clears it, and on
\* an unmounted component its state update does nothing
FallbackTimerFires ==
  /\ fallbackTimers # <<>>
  /\ fallbackTimers' = Tail(fallbackTimers)
  /\ LET t == Head(fallbackTimers) IN
     IF camLife = "mounted" /\ ~t.isVideoReady /\ t.retryCount < RetryLimit
     THEN Render(isFrontCamera, isVideoReady, TRUE, retryCount, cameraError,
                 isInitializing, webcam)
     ELSE UNCHANGED <<isFrontCamera, isVideoReady, cameraError,
                      useNativeCamera, retryCount, isInitializing, streamRef,
                      streams, videoSrc, metadataPending, webcam, initTimer,
                      invs>>
  /\ UNCHANGED <<camLife, platform>>
  /\ UNCHANGED <<appVars, vvVars, capVars, monVars>>
  /\ LightingEffect

\* <Webcam onUserMedia>
handleWebcamReady ==
  /\ camLife = "mounted"
  /\ webcam = "pending"
  /\ Render(isFrontCamera, TRUE, useNativeCamera, retryCount, Null, FALSE,
            "ready")
  /\ UNCHANGED <<camLife, fallbackTimers, platform>>
  /\ UNCHANGED <<appVars, vvVars, capVars, monVars>>
  /\ LightingEffect

\* <Webcam onUserMediaError>
handleWebcamError(names) ==
  /\ camLife = "mounted"
  /\ webcam = "pending"
  /\ \E name \in names :
       IF retryCount < RetryLimit
       THEN Render(isFrontCamera, FALSE, TRUE, retryCount + 1, cameraError,
                   FALSE, "failed")
       ELSE Render(isFrontCamera, FALSE, useNativeCamera, retryCount,
                   webcamErrorMessage(name), FALSE, "failed")
  /\ UNCHANGED <<camLife, fallbackTimers, platform>>
  /\ UNCHANGED <<appVars, vvVars, capVars, monVars>>
  /\ LightingEffect

\* a getUserMedia call of an invocation of initializeNativeCamera settles,
\* and the invocation runs on to its next await or to its end
GetUserMediaSettles(names) ==
  /\ \E k \in 1..Len(invs), name \in names :
       LET inv == invs[k] IN
       IF platform[inv.i]
       THEN /\ Len(streams) < MaxStreams
            /\ streams' = Append(streams, AcquiredStream(inv))
            /\ streamRef' = Len(streams) + 1
            /\ invs' = RemoveAt(invs, k)
            /\ IF camLife = "mounted" /\ useNativeCamera
               THEN /\ videoSrc' = Len(streams) + 1
                    /\ metadataPending' = TRUE
               ELSE UNCHANGED <<videoSrc, metadataPending>>
            /\ UNCHANGED <<isInitializing, isVideoReady, cameraError>>
       ELSE IF inv.i < NumConstraintSets
       THEN /\ invs' = [invs EXCEPT ![k].i = inv.i + 1]
            /\ UNCHANGED <<streams, streamRef, videoSrc, metadataPending,
                           isInitializing, isVideoReady, cameraError>>
       ELSE /\ invs' = RemoveAt(invs, k)
            /\ IF camLife = "mounted"
               THEN /\ isInitializing' = FALSE
                    /\ isVideoReady' = FALSE
                    /\ cameraError' = nativeErrorMessage(name)
               ELSE UNCHANGED <<isInitializing, isVideoReady, cameraError>>
            /\ UNCHANGED <<streams, streamRef, videoSrc, metadataPending>>
  /\ UNCHANGED <<camLife, isFrontCamera, useNativeCamera, retryCount, webcam,
                 initTimer, fallbackTimers, platform>>
  /\ UNCHANGED <<appVars, vvVars, capVars, monVars>>
  /\ LightingEffect

\* videoRef.current.onloadedmetadata
LoadedMetadata ==
  /\ camLife = "mounted"
  /\ metadataPending
  /\ metadataPending' = FALSE
  /\ isVideoReady' = TRUE
  /\ isInitializing' = FALSE
  /\ UNCHANGED <<camLife, isFrontCamera, cameraError, useNativeCamera,
                 retryCount, streamRef, streams, videoSrc, webcam, initTimer,
                 fallbackTimers, invs, platform>>
  /\ UNCHANGED <<appVars, vvVars, capVars, monVars>>
  /\ LightingEffect

\* the switch-camera button: shown without an error, disabled while
\* initializing
toggleCamera ==
  /\ camLife = "mounted"
  /\ cameraError = Null
  /\ ~isInitializing
  /\ Render(~isFrontCamera, FALSE, useNativeCamera, retryCount, cameraError,
            TRUE, webcam)
  /\ UNCHANGED <<camLife, fallbackTimers, platform>>
  /\ UNCHANGED <<appVars, vvVars, capVars, monVars>>
  /\ LightingEffect

\* "Try Again" of the error view
retryCamera ==
  /\ camLife = "mounted"
  /\ cameraError # Null
  /\ Render(isFrontCamera, FALSE, FALSE, 0, Null, TRUE, webcam)
  /\ UNCHANGED <<camLife, fallbackTimers, platform>>
  /\ UNCHANGED <<appVars, vvVars, capVars, monVars>>
  /\ LightingEffect

\* "Use Native Camera" of the error view, offered in react-webcam mode
switchToNativeCamera ==
  /\ camLife = "mounted"
  /\ cameraError # Null
  /\ ~useNativeCamera
  /\ Render(isFrontCamera, FALSE, TRUE, retryCount, Null, isInitializing,
            webcam)
  /\ UNCHANGED <<camLife, fallbackTimers, platform>>
  /\ UNCHANGED <<appVars, vvVars, capVars, monVars>>
  /\ LightingEffect

\* onClose: the parent unmounts the component.  The initialise effect's
\* cleanup clears the 100 ms timer, the unmount cleanup stops the stream
\* held by streamRef, the <Webcam> releases its own.
CameraClose ==
  /\ camLife = "mounted"
  /\ camLife' = "closed"
  /\ initTimer' = NoTimer
  /\ streams' = StopStream(streams, streamRef)
  /\ webcam' = "none"
  /\ videoSrc' = 0
  /\ metadataPending' = FALSE
  /\ UNCHANGED <<isFrontCamera, isVideoReady, cameraError, useNativeCamera,
                 retryCount, isInitializing, streamRef, fallbackTimers, invs,
                 platform>>
  /\ UNCHANGED <<appVars, vvVars, capVars, monVars>>
  /\ LightingEffect

(***************************************************************************)
(* CameraCapture: the lighting heuristic and the capture action.  A frame  *)
(* is given by the pixels the analysis samples from it.  The code computes  *)
(* in double-precision arithmetic; the model computes in whole numbers, on  *)
(* the frames for which every value the code compares is the same in both: *)
(* every sampled pixel is grey (r = g = b) with a level of GreyLevels, for  *)
(* which 0.299 * v + 0.587 * v + 0.114 * v is exactly v in doubles (it is   *)
(* not for 128, which gives 127.99999999999999).                           *)
(***************************************************************************)
FrameSamples == 4

GreyLevels == {0, 100, 129, 255}

Grey(v) == [r |-> v, g |-> v, b |-> v]

RECURSIVE Sum(_)
Sum(seq) == IF seq = <<>> THEN 0 ELSE Head(seq) + Sum(Tail(seq))

\* 0.299 * r + 0.587 * g + 0.114 * b, for a grey pixel of a level of
\* GreyLevels; on no other pixel is it defined
Luminance(px) ==
  CASE px \in {Grey(v) : v \in GreyLevels} ->
         (299 * px.r + 587 * px.g + 114 * px.b) \div 1000

\* The sums analyzeLightingQuality accumulates over the sampled pixels and
\* the two flags it derives.  With n samples and their sum total,
\* averageBrightness is total / n and contrast is the square root of
\* spread / n^3, where spread is the sum of (n * luminance - total)^2;
\* brightRatio is bright / n and darkRatio is dark / n.
AverageAbove(m, c) == m.total > c * m.n
AverageBelow(m, c) == m.total < c * m.n
ContrastAbove(m, c) == m.spread > c * c * m.n * m.n * m.n
ContrastBelow(m, c) == m.spread < c * c * m.n * m.n * m.n

analyzeLightingQuality(frame) ==
  LET n == Len(frame)
      lum == [i \in 1..n |-> Luminance(frame[i])]
      total == Sum(lum)
      dev == [i \in 1..n |-> (n * lum[i] - total) * (n * lum[i] - total)]
      isBright == [i \in 1..n |-> IF lum[i] > 120 THEN 1 ELSE 0]
      isDark == [i \in 1..n |-> IF lum[i] > 120 THEN 0
                                ELSE IF lum[i] < 60 THEN 1 ELSE 0]
      sums == [n |-> n, total |-> total, spread |-> Sum(dev),
               bright |-> Sum(isBright), dark |-> Sum(isDark)]
  IN  [n |-> sums.n, total |-> sums.total, spread |-> sums.spread,
       bright |-> sums.bright, dark |-> sums.dark,
       isWellLit |-> /\ AverageAbove(sums, 60)
                     /\ AverageBelow(sums, 220)
                     /\ ContrastAbove(sums, 20)
                     /\ 10 * sums.bright > sums.n
                     /\ 10 * sums.dark < 7 * sums.n,
       hasContrast |-> ContrastAbove(sums, 15)]

\* the messages are given without their leading pictograph
Quality(level, message, canCapture) ==
  [level |-> level, message |-> message, canCapture |-> canCapture]

\* a variant of assessLightingQuality that grades by brightness alone
assessLightingQualityByBrightness(m) ==
  IF AverageBelow(m, 30)
    THEN Quality("poor", "Need More Light", FALSE)
  ELSE IF AverageAbove(m, 230)
    THEN Quality("poor", "Too Bright/Washed Out", FALSE)
  ELSE Quality("fair", "Adequate Lighting", TRUE)

assessLightingQuality(m) ==
  IF m.isWellLit /\ ContrastAbove(m, 40) /\ 10 * m.bright > 3 * m.n
    THEN Quality("excellent", "Perfect Lighting", TRUE)
  ELSE IF m.isWellLit /\ m.hasContrast
    THEN Quality("good", "Good Lighting", TRUE)
  ELSE IF m.hasContrast
    THEN IF AverageBelow(m, 50)
           THEN Quality("fair", "Slightly Dark - OK", TRUE)
         ELSE IF AverageAbove(m, 200)
           THEN Quality("fair", "Bright Scene - OK", TRUE)
         ELSE Quality("good", "Good Contrast", TRUE)
  ELSE IF AverageBelow(m, 30) /\ 20 * m.bright < m.n
    THEN Quality("poor", "Need More Light", FALSE)
  ELSE IF AverageAbove(m, 230) /\ ContrastBelow(m, 10)
    THEN Quality("poor", "Too Bright/Washed Out", FALSE)
  ELSE IF ContrastBelow(m, 10)
    THEN Quality("poor", "Low Contrast Scene", FALSE)
  ELSE IF AverageBelow(m, 20)
    THEN Quality("very-poor", "Very Dark - Add Light", FALSE)
  ELSE Quality("fair", "Adequate Lighting", TRUE)

InitLightingQuality == Quality("fair", "Analyzing...", FALSE)

\* cardDetected of detectLightingAndCard
CardDetectedByBrightness(m, force) ==
  force \/ (AverageAbove(m, 40) /\ AverageBelow(m, 250))

CardDetected(m, force) ==
  m.hasContrast /\ (force \/ (AverageAbove(m, 40) /\ AverageBelow(m, 250)))

\* the frames the camera can show: FrameSamples grey pixels each
Frames == {[i \in 1..FrameSamples |-> Grey(level[i])] :
             level \in [1..FrameSamples -> GreyLevels]}

\* a dark, a flat, a mixed and a washed-out frame
SomeFrames ==
  {[i \in 1..FrameSamples |-> Grey(0)],
   [i \in 1..FrameSamples |-> Grey(129)],
   [i \in 1..FrameSamples |-> Grey(IF i = 1 THEN 0 ELSE 255)],
   [i \in 1..FrameSamples |-> Grey(255)]}

\* the element the loop reads has a frame with non-zero dimensions
FrameAvailable ==
  IF useNativeCamera THEN videoSrc # 0 /\ ~metadataPending
  ELSE webcam = "ready"

\* A tick of detectLightingAndCard that reaches the frame goes one of three
\* ways: the frame has zero dimensions ("skipped"), reading its pixels throws
\* ("threw"), or it is analysed ("analysed").
\* a variant of Rescheduling in which a tick that threw ends the loop
ReschedulingUnlessThrown == {"skipped", "analysed"}

\* the outcomes after which the tick calls requestAnimationFrame again
Rescheduling == {"skipped", "threw", "analysed"}

\* A tick of detectLightingAndCard (every 15th; the other ticks only
\* reschedule).  The loop runs from the effect on isVideoReady until that
\* effect's cleanup.
detectLightingAndCard(frames) ==
  /\ camLife = "mounted"
  /\ lightLoop
  /\ \E outcome \in {"skipped", "threw", "analysed"} :
       /\ outcome = "skipped" <=> ~FrameAvailable
       /\ IF outcome = "analysed"
          THEN \E frame \in frames :
                 LET lightingMetrics == analyzeLightingQuality(frame) IN
                 /\ isCardDetected' = CardDetected(lightingMetrics, forceCapture)
                 /\ lightingQuality' = assessLightingQuality(lightingMetrics)
                 /\ lastFrame' = frame
          ELSE UNCHANGED <<isCardDetected, lightingQuality, lastFrame>>
       /\ lightLoop' = (outcome \in Rescheduling)
  /\ UNCHANGED <<forceCapture, isCapturing, shots, compressing, captured,
                 captureOutcome, isIOSSafari>>
  /\ UNCHANGED camBase
  /\ UNCHANGED <<appVars, vvVars, monVars>>

\* the button Capture Anyway
CaptureAnyway ==
  /\ camLife = "mounted"
  /\ cameraError = Null
  /\ ~isInitializing
  /\ ~lightingQuality.canCapture
  /\ ~forceCapture
  /\ forceCapture' = TRUE
  /\ UNCHANGED <<isCardDetected, lightingQuality, isCapturing, lastFrame,
                 shots, compressing, captured, captureOutcome, isIOSSafari>>
  /\ UNCHANGED camBase
  /\ LightingEffect
  /\ UNCHANGED <<appVars, vvVars, monVars>>

\* the capture button is shown and not disabled
CaptureEnabled ==
  /\ cameraError = Null
  /\ ~(isCapturing \/ ~isCardDetected \/ ~isVideoReady \/ isInitializing)

\* captureImage from the click to its first await: the action is refused
\* with a toast, or a frame is grabbed; a grab that yields no image throws
\* (catch: toast, finally: isCapturing cleared again)
captureImage ==
  /\ camLife = "mounted"
  /\ CaptureEnabled
  /\ IF ~isVideoReady \/ (~isCardDetected /\ ~forceCapture)
     THEN UNCHANGED <<isCapturing, shots, captureOutcome>>
     ELSE \E grabbed \in BOOLEAN :
            IF grabbed
            THEN /\ shots < MaxShots
                 /\ isCapturing' = TRUE
                 /\ shots' = shots + 1
                 /\ UNCHANGED captureOutcome
            ELSE /\ captureOutcome' = "failed"
                 /\ UNCHANGED <<isCapturing, shots>>
  /\ UNCHANGED <<forceCapture, isCardDetected, lightingQuality, lastFrame,
                 compressing, captured, isIOSSafari, lightLoop>>
  /\ UNCHANGED camBase
  /\ UNCHANGED <<appVars, vvVars, monVars>>

\* the ways a capture ends in which onCapture is called: with the re-encoded
\* image ("encoded"), or, when the re-encoding failed (toBlob yields null,
\* Compressor calls error), with the image before that step ("fallback")
Delivered == {"encoded", "fallback"}

\* The rest of a run of captureImage, after its awaits.  Fetch of the data
\* URL throws ("failed": catch, toast); or, on iOS Safari, the run calls
\* onCapture itself; or, on another browser, it creates a Compressor, whose
\* callback comes in a later task.  The finally block clears isCapturing.
CaptureSettles ==
  /\ shots > 0
  /\ shots' = shots - 1
  /\ isCapturing' = IF camLife = "mounted" THEN FALSE ELSE isCapturing
  /\ \/ /\ captureOutcome' = "failed"
        /\ UNCHANGED <<captured, compressing>>
     \/ /\ isIOSSafari
        /\ captured < MaxCaptured
        /\ captured' = captured + 1
        /\ \E outcome \in Delivered : captureOutcome' = outcome
        /\ UNCHANGED compressing
     \/ /\ ~isIOSSafari
        /\ compressing < MaxCompressions
        /\ compressing' = compressing + 1
        /\ UNCHANGED <<captured, captureOutcome>>
  /\ UNCHANGED <<forceCapture, isCardDetected, lightingQuality, lastFrame,
                 isIOSSafari, lightLoop>>
  /\ UNCHANGED camBase
  /\ UNCHANGED <<appVars, vvVars, monVars>>

\* the success or the error callback of a Compressor: each calls onCapture,
\* whatever has become of the component since
CompressorSettles ==
  /\ compressing > 0
  /\ captured < MaxCaptured
  /\ compressing' = compressing - 1
  /\ captured' = captured + 1
  /\ \E outcome \in Delivered : captureOutcome' = outcome
  /\ UNCHANGED <<forceCapture, isCardDetected, lightingQuality, isCapturing,
                 lastFrame, shots, isIOSSafari, lightLoop>>
  /\ UNCHANGED camBase
  /\ UNCHANGED <<appVars, vvVars, monVars>>

(***************************************************************************)
(* SupabaseHealthMonitor: the monitor object of the page.  Every method of *)
(* it that queries the backend is an async function: it runs to its next   *)
(* await in the task that called it, and on from there in the task in      *)
(* which the answer arrives, together with the callers that awaited it.    *)
(* monCalls holds the awaits outstanding.  init() awaits testConnection and *)
(* then starts the periodic health check; testConnection is also called by *)
(* performHealthCheck and from the console; stop() clears the interval the  *)
(* field holds.  testFileUpload uploads a test file.                       *)
(***************************************************************************)
MaxMonCalls == 2
MaxIntervals == 2
MaxHealthChecks == 2

\* `test_${Date.now()}/test.txt`
TestPath == <<[prefix |-> "test_", key |-> "now"], "test.txt">>

\* WITH CHECK of the policy "Allow uploads to 9alwa application folders": the
\* name has two segments, the folder is LIKE 'application_%' and the file is
\* one of the five of a submission
WritableByPolicy(path) ==
  /\ Len(path) = 2
  /\ path[1].prefix = "application_"
  /\ path[2] \in FileNames

\* who awaits a run of testConnection: init(), performHealthCheck(), the
\* console (testConnectionPublic) or runAllTests()
Callers == {"init", "performHealthCheck", "public", "runAllTests"}

\* An await outstanding.  In a run of testConnection: of the query of its
\* first line ("connection"), of the query of checkTables ("tables"), of
\* listBuckets in checkStorageBuckets ("buckets"), or of the listing in
\* testDirectBucketAccess or checkBucketContents ("bucket").  In
\* performHealthCheck: of its own query ("health").
Await(at, caller) == [at |-> at, caller |-> caller]

MonIdle ==
  /\ supabase = FALSE
  /\ isConnected = FALSE
  /\ healthCheckInterval = 0
  /\ intervals = {}
  /\ monCalls = EmptyBag
  /\ monStopped = FALSE
  /\ healthChecks = 0
  /\ monUploads = {}

\* testConnection from its call to its first await.  Without a client in
\* the field the query throws before it is issued: the catch clears
\* isConnected and the run returns false in the task that called it.
testConnection(calls, caller, client) ==
  IF client
  THEN calls (+) SetToBag({Await("connection", caller)})
  ELSE calls

\* performHealthCheck from its call to its first await; it is called by
\* init() and by the interval init() has set, so the field holds the client
performHealthCheck(calls, connected) ==
  IF ~connected
  THEN testConnection(calls, "performHealthCheck", TRUE)
  ELSE calls (+) SetToBag({Await("health", "performHealthCheck")})

\* the runs of init() that await their testConnection
InitsAwaiting ==
  BagCardinality([call \in {c \in BagToSet(monCalls) : c.caller = "init"}
                    |-> monCalls[call]])

\* monitor.init() up to its await: by the constructor, by the
\* auto-initialisation or from the console.  It assigns the client to the
\* field and calls testConnection.
monitorInit ==
  /\ BagCardinality(monCalls) < MaxMonCalls
  /\ InitsAwaiting + Cardinality(intervals) < MaxIntervals
  /\ supabase' = TRUE
  /\ monCalls' = testConnection(monCalls, "init", TRUE)
  /\ monStopped' = FALSE
  /\ UNCHANGED <<isConnected, healthCheckInterval, intervals, healthChecks,
                 monUploads>>
  /\ UNCHANGED <<appVars, vvVars, camVars>>

\* monitor.testConnectionPublic() (monitor.testConnection() of the console
\* script) up to its await, or to its end on a monitor without a client
testConnectionPublic ==
  /\ BagCardinality(monCalls) < MaxMonCalls
  /\ monCalls' = testConnection(monCalls, "public", supabase)
  /\ isConnected' = IF supabase THEN isConnected ELSE FALSE
  /\ UNCHANGED <<supabase, healthCheckInterval, intervals, monStopped,
                 healthChecks, monUploads>>
  /\ UNCHANGED <<appVars, vvVars, camVars>>

\* monitor.runAllTests() up to its await.  On a monitor without a client
\* it runs to its end: testConnection, testFileUpload and testDatabaseInsert
\* each throw before their request and return false.
runAllTests ==
  /\ BagCardinality(monCalls) < MaxMonCalls
  /\ monCalls' = testConnection(monCalls, "runAllTests", supabase)
  /\ isConnected' = IF supabase THEN isConnected ELSE FALSE
  /\ UNCHANGED <<supabase, healthCheckInterval, intervals, monStopped,
                 healthChecks, monUploads>>
  /\ UNCHANGED <<appVars, vvVars, camVars>>

\* A run of testConnection returns, and its caller runs on.  init() calls
\* startHealthMonitoring, which sets the interval, assigns it to the field
\* and calls performHealthCheck; runAllTests() calls testFileUpload, which
\* runs to its upload request; the other callers have nothing left that
\* changes the monitor.
testConnectionReturns(call) ==
  LET rest == monCalls (-) SetToBag({call}) IN
  /\ IF call.caller = "init"
     THEN /\ LET id == CHOOSE i \in 1..MaxIntervals : i \notin intervals
             IN /\ healthCheckInterval' = id
                /\ intervals' = intervals \cup {id}
          /\ monCalls' = performHealthCheck(rest, isConnected')
     ELSE /\ monCalls' = rest
          /\ UNCHANGED <<healthCheckInterval, intervals>>
  /\ monUploads' = IF call.caller = "runAllTests"
                   THEN monUploads \cup {TestPath}
                   ELSE monUploads

\* the first query of a run of testConnection is answered: with an error
\* (or it throws) the run clears isConnected and returns false; otherwise it
\* sets isConnected and goes on to checkTables
testConnectionSettles(answers) ==
  /\ \E call \in BagToSet(monCalls), ok \in answers :
       /\ call.at = "connection"
       /\ isConnected' = ok
       /\ IF ok
          THEN /\ monCalls' = (monCalls (-) SetToBag({call}))
                                (+) SetToBag({Await("tables", call.caller)})
               /\ UNCHANGED <<healthCheckInterval, intervals, monUploads>>
          ELSE testConnectionReturns(call)
  /\ UNCHANGED <<supabase, monStopped, healthChecks>>
  /\ UNCHANGED <<appVars, vvVars, camVars>>

\* the query of checkTables is answered, whatever the answer: the run goes on
\* to checkStorageBuckets
checkTablesSettles ==
  /\ \E call \in BagToSet(monCalls) :
       /\ call.at = "tables"
       /\ monCalls' = (monCalls (-) SetToBag({call}))
                        (+) SetToBag({Await("buckets", call.caller)})
  /\ UNCHANGED <<supabase, isConnected, healthCheckInterval, intervals,
                 monStopped, healthChecks, monUploads>>
  /\ UNCHANGED <<appVars, vvVars, camVars>>

\* what listBuckets answers: a list with the bucket 9alwa ("found"), a list
\* without it ("missing"), or no list (an error, an empty list, a throw:
\* "failed")
Listings == {"found", "missing", "failed"}

\* listBuckets of checkStorageBuckets is answered: with the bucket in the
\* list the run goes on to checkBucketContents, without a list to
\* testDirectBucketAccess, and with a list that lacks the bucket
\* testConnection returns true
checkStorageBucketsSettles(listings) ==
  /\ \E call \in BagToSet(monCalls), listing \in listings :
       /\ call.at = "buckets"
       /\ IF listing = "missing"
          THEN /\ UNCHANGED isConnected
               /\ testConnectionReturns(call)
          ELSE /\ monCalls' = (monCalls (-) SetToBag({call}))
                                (+) SetToBag({Await("bucket", call.caller)})
               /\ UNCHANGED <<isConnected, healthCheckInterval, intervals,
                              monUploads>>
  /\ UNCHANGED <<supabase, monStopped, healthChecks>>
  /\ UNCHANGED <<appVars, vvVars, camVars>>

\* the listing of checkBucketContents or of testDirectBucketAccess is
\* answered, whatever the answer: testConnection returns true
BucketListSettles ==
  /\ \E call \in BagToSet(monCalls) :
       /\ call.at = "bucket"
       /\ UNCHANGED isConnected
       /\ testConnectionReturns(call)
  /\ UNCHANGED <<supabase, monStopped, healthChecks>>
  /\ UNCHANGED <<appVars, vvVars, camVars>>

\* an interval that was set and not cleared fires: its callback calls
\* performHealthCheck
HealthCheckIntervalFires ==
  /\ intervals # {}
  /\ healthChecks < MaxHealthChecks
  /\ BagCardinality(monCalls) < MaxMonCalls
  /\ healthChecks' = healthChecks + 1
  /\ monCalls' = performHealthCheck(monCalls, isConnected)
  /\ UNCHANGED <<supabase, isConnected, healthCheckInterval, intervals,
                 monStopped, monUploads>>
  /\ UNCHANGED <<appVars, vvVars, camVars>>

\* the query of performHealthCheck is answered: an error (or a throw) clears
\* isConnected
performHealthCheckSettles(answers) ==
  /\ \E ok \in answers :
       LET call == Await("health", "performHealthCheck") IN
       /\ BagIn(call, monCalls)
       /\ monCalls' = monCalls (-) SetToBag({call})
       /\ isConnected' = IF ok THEN isConnected ELSE FALSE
  /\ UNCHANGED <<supabase, healthCheckInterval, intervals, monStopped,
                 healthChecks, monUploads>>
  /\ UNCHANGED <<appVars, vvVars, camVars>>

\* monitor.stop()
monitorStop ==
  /\ IF healthCheckInterval # 0
     THEN /\ intervals' = intervals \ {healthCheckInterval}
          /\ healthCheckInterval' = 0
     ELSE UNCHANGED <<healthCheckInterval, intervals>>
  /\ monStopped' = TRUE
  /\ UNCHANGED <<supabase, isConnected, monCalls, healthChecks, monUploads>>
  /\ UNCHANGED <<appVars, vvVars, camVars>>

\* monitor.testFileUpload() up to its upload request; without a client in
\* the field it throws before the request and returns false
testFileUpload ==
  /\ monUploads' = IF supabase THEN monUploads \cup {TestPath} ELSE monUploads
  /\ UNCHANGED <<supabase, isConnected, healthCheckInterval, intervals, monCalls,
                 monStopped, healthChecks>>
  /\ UNCHANGED <<appVars, vvVars, camVars>>

(***************************************************************************)
(* Initial states.                                                         *)
(***************************************************************************)
AppInit ==
  /\ step = STEP_NAMES.PERSONAL_DATA
  /\ personalInfo = InitPersonalInfo
  /\ personalInfoErrors = InitPersonalInfoErrors
  /\ frontId = Null
  /\ backId = Null
  /\ isSubmitting = FALSE
  /\ showVideoVerification = FALSE
  /\ subs = [s \in 1..MaxSubs |-> IdleSub]
  /\ lastOp = "other"
  /\ exitSteps = 0

\* no modal is mounted
VVInit ==
  /\ vvMounted = FALSE
  /\ onCompleteInfo = InitPersonalInfo
  /\ currentStep = VIDEO_SUB_STEPS.FIRST_VIDEO_RECORDING
  /\ firstVideo = 0
  /\ isRecording = FALSE
  /\ isWebcamReady = FALSE
  /\ isFaceDetected = FALSE
  /\ isMediaRecorderSupported = TRUE
  /\ vvWebcam = "none"
  /\ faceLoop = FALSE
  /\ mediaRecorderRef = 0
  /\ recordingTimeoutRef = 0
  /\ recordingStartTimeRef = FALSE
  /\ recs = {}
  /\ timers = {}
  /\ recCount = 0
  /\ completeCalls = [k \in Ages |-> 0]

\* no capture surface is open
CamIdle ==
  /\ camLife = "absent"
  /\ isFrontCamera = FALSE
  /\ isVideoReady = FALSE
  /\ cameraError = Null
  /\ useNativeCamera = FALSE
  /\ retryCount = 0
  /\ isInitializing = TRUE
  /\ streamRef = 0
  /\ streams = <<>>
  /\ videoSrc = 0
  /\ metadataPending = FALSE
  /\ webcam = "none"
  /\ initTimer = NoTimer
  /\ fallbackTimers = <<>>
  /\ invs = <<>>
  /\ platform = <<>>
  /\ forceCapture = FALSE
  /\ isCardDetected = FALSE
  /\ lightingQuality = InitLightingQuality
  /\ isCapturing = FALSE
  /\ lastFrame = <<>>
  /\ shots = 0
  /\ compressing = 0
  /\ captured = 0
  /\ captureOutcome = "none"
  /\ isIOSSafari = FALSE
  /\ lightLoop = FALSE

\* the page is loaded: no modal, no capture surface
Init == AppInit /\ VVInit /\ CamIdle /\ MonIdle

(***************************************************************************)
(* The form steps alone, with every kind of input: the modal is never      *)
(* opened.  A submit event reaches the form from its button or without it. *)
(***************************************************************************)
FormNext ==
  \/ FullNameChange(NameInputs)
  \/ PhoneChange(PhoneInputs)
  \/ EmailChange(EmailInputs)
  \/ StateChange(StateInputs)
  \/ AddressChange(AddressInputs)
  \/ SSNChange(SSNInputs)
  \/ handlePersonalInfoSubmit(BOOLEAN)
  \/ FrontAccepted(ImageFiles)
  \/ BackAccepted(ImageFiles)
  \/ handleDocumentsSubmit(BOOLEAN)
  \/ DocumentsBack
  \/ VideoBack

SpecForm == Init /\ [][FormNext]_vars

(***************************************************************************)
(* The flow from the first step to the end of the submissions, for one     *)
(* profile and one image, with every behaviour of the storage and the      *)
(* database, of the timers and of the recorder's error event, and with a   *)
(* user who goes back and forth between the steps but keeps the modal open *)
(* and the face in the circle.                                             *)
(***************************************************************************)
AppNext ==
  \/ FullNameChange(GoodName)
  \/ PhoneChange(GoodPhone)
  \/ EmailChange(GoodEmail)
  \/ SSNChange(GoodSSN)
  \/ handlePersonalInfoSubmit({TRUE})
  \/ FrontAccepted(GoodImage)
  \/ BackAccepted(GoodImage)
  \/ handleDocumentsSubmit({TRUE})
  \/ DocumentsBack
  \/ VideoBack
  \/ startRecordingApp({TRUE})
  \/ ExitComplete
  \/ PanelExitComplete
  \/ WebcamUserMedia({TRUE})
  \/ checkFacePosition({TRUE})
  \/ startRecording
  \/ RecordingTimeout
  \/ updateProgress
  \/ onRecorderError
  \/ StartAgain
  \/ onRecorderStop({TRUE})
  \/ UploadSettles(Outcomes)
  \/ SignedUrlsSettle(BOOLEAN)
  \/ InsertSettles(Outcomes)

SpecApp == Init /\ [][AppNext]_vars

(***************************************************************************)
(* The same flow with every behaviour of the modal, the recorder and the   *)
(* user in the video step -- browsers without MediaRecorder, frames with   *)
(* and without a face, empty recordings, the modal closed at any moment -- *)
(* against a storage and a database that accept every request.             *)
(***************************************************************************)
VideoNext ==
  \/ FullNameChange(GoodName)
  \/ PhoneChange(GoodPhone)
  \/ EmailChange(GoodEmail)
  \/ SSNChange(GoodSSN)
  \/ handlePersonalInfoSubmit({TRUE})
  \/ FrontAccepted(GoodImage)
  \/ BackAccepted(GoodImage)
  \/ handleDocumentsSubmit({TRUE})
  \/ DocumentsBack
  \/ VideoBack
  \/ startRecordingApp(BOOLEAN)
  \/ onCloseVideo
  \/ ExitComplete
  \/ PanelExitComplete
  \/ WebcamUserMedia(BOOLEAN)
  \/ checkFacePosition(BOOLEAN)
  \/ startRecording
  \/ RecordingTimeout
  \/ updateProgress
  \/ onRecorderError
  \/ StartAgain
  \/ onRecorderStop(BOOLEAN)
  \/ UploadSettles({"ok"})
  \/ SignedUrlsSettle({TRUE})
  \/ InsertSettles({"ok"})

SpecVideo == Init /\ [][VideoNext]_vars

(***************************************************************************)
(* One instance of the image-capture component, from its mount to after    *)
(* its teardown, on every platform, with every behaviour of the user, the  *)
(* timers and the camera.                                                  *)
(***************************************************************************)
CamNext ==
  \/ CameraMount(Platforms, {FALSE})
  \/ InitTimerFires
  \/ FallbackTimerFires
  \/ handleWebcamReady
  \/ handleWebcamError(ErrorNames)
  \/ GetUserMediaSettles(ErrorNames)
  \/ LoadedMetadata
  \/ toggleCamera
  \/ retryCamera
  \/ switchToNativeCamera
  \/ CameraClose

SpecCam == Init /\ [][CamNext]_vars

(***************************************************************************)
(* The image-capture component with its lighting loop and capture action,  *)
(* on a platform that accepts every constraint set and on one that rejects *)
(* every set, on iOS Safari and on another browser, with four kinds of     *)
(* frame.                                                                  *)
(***************************************************************************)
SomePlatforms ==
  {[j \in 1..NumConstraintSets |-> TRUE], [j \in 1..NumConstraintSets |-> FALSE]}

CaptureNext ==
  \/ CameraMount(SomePlatforms, BOOLEAN)
  \/ InitTimerFires
  \/ FallbackTimerFires
  \/ handleWebcamReady
  \/ handleWebcamError({"Unknown"})
  \/ GetUserMediaSettles({"Unknown"})
  \/ LoadedMetadata
  \/ toggleCamera
  \/ retryCamera
  \/ switchToNativeCamera
  \/ CameraClose
  \/ detectLightingAndCard(SomeFrames)
  \/ CaptureAnyway
  \/ captureImage
  \/ CaptureSettles
  \/ CompressorSettles

SpecCapture == Init /\ [][CaptureNext]_vars

(***************************************************************************)
(* The lighting heuristic on every frame: the image-capture component with *)
(* its timers and both camera modes, on a platform that accepts every      *)
(* constraint set, with a react-webcam that reports no error and a user    *)
(* who leaves the camera buttons alone.                                    *)
(***************************************************************************)
LightNext ==
  \/ CameraMount({[j \in 1..NumConstraintSets |-> TRUE]}, {FALSE})
  \/ InitTimerFires
  \/ FallbackTimerFires
  \/ handleWebcamReady
  \/ GetUserMediaSettles({"Unknown"})
  \/ LoadedMetadata
  \/ CameraClose
  \/ detectLightingAndCard(Frames)
  \/ CaptureAnyway

SpecLight == Init /\ [][LightNext]_vars


(***************************************************************************)
(* The whole application for one concrete applicant, against a storage and *)
(* a database that accept every request.                                   *)
(***************************************************************************)
JaneName == {<<"J","a","n","e"," ","D","o","e">>}
JanePhone == {<<"5","5","5","1","2","3","4","5","6","7">>}
JaneSSN == {<<"1","2","3","4","5","6","7","8","9">>}
JaneEmail == {<<"j","a","n","e","@","x",".","c","o","m">>}

JaneNext ==
  \/ FullNameChange(JaneName)
  \/ AddressChange({<<"x">>})
  \/ PhoneChange(JanePhone)
  \/ EmailChange(JaneEmail)
  \/ SSNChange(JaneSSN)
  \/ handlePersonalInfoSubmit({TRUE})
  \/ FrontAccepted({"img1"})
  \/ BackAccepted({"img2"})
  \/ handleDocumentsSubmit({TRUE})
  \/ DocumentsBack
  \/ VideoBack
  \/ startRecordingApp(BOOLEAN)
  \/ onCloseVideo
  \/ ExitComplete
  \/ PanelExitComplete
  \/ WebcamUserMedia(BOOLEAN)
  \/ checkFacePosition(BOOLEAN)
  \/ startRecording
  \/ RecordingTimeout
  \/ updateProgress
  \/ onRecorderError
  \/ StartAgain
  \/ onRecorderStop(BOOLEAN)
  \/ UploadSettles({"ok"})
  \/ SignedUrlsSettle({TRUE})
  \/ InsertSettles({"ok"})

SpecJane == Init /\ [][JaneNext]_vars

(***************************************************************************)
(* The health monitor alone, with every ordering of its public methods,    *)
(* the answers of the backend and the interval.                            *)
(***************************************************************************)
MonNext ==
  \/ monitorInit
  \/ testConnectionPublic
  \/ runAllTests
  \/ testConnectionSettles(BOOLEAN)
  \/ checkTablesSettles
  \/ checkStorageBucketsSettles(Listings)
  \/ BucketListSettles
  \/ HealthCheckIntervalFires
  \/ performHealthCheckSettles(BOOLEAN)
  \/ monitorStop
  \/ testFileUpload

SpecMon == Init /\ [][MonNext]_vars

(***************************************************************************)
(* Properties of the submission coordinator.                               *)
(***************************************************************************)
\* C1: in every run of handleSubmission the insert is issued only once all
\* five uploads of that run have been accepted, and a run in which an upload
\* was refused never issues the insert.
C1_InsertOnlyAfterFiveUploads ==
  \A s \in 1..MaxSubs :
    /\ subs[s].pc \in {"urls", "insert", "ok"} \/ subs[s].inserts > 0
         => subs[s].up = [ok |-> NumUploads, failed |-> 0, pending |-> 0]
    /\ subs[s].up.failed > 0
         => subs[s].inserts = 0 /\ subs[s].row = Null /\ subs[s].pc = "failed"
    /\ subs[s].pc = "uploading" => subs[s].inserts = 0

\* the insert of a run is outstanding, its five uploads accepted
C1_Witness ==
  \E s \in 1..MaxSubs :
    subs[s].pc = "insert" /\ subs[s].inserts = 1 /\ subs[s].up.ok = NumUploads

\* the five paths a run uploads to
FivePaths(s) ==
  {<<folderName(s), f>> :
     f \in {"personal_info.txt", "id_front.jpg", "id_back.jpg",
            "verification_1.webm", "verification_2.webm"}}

\* C2: a run requests the signed URLs once its five uploads are accepted, for
\* exactly the five paths it uploaded to and before any insert; it then issues
\* exactly one insert, with status pending; and it sets the step to complete
\* only when that insert has succeeded.
C2_UrlsThenOneInsertThenComplete ==
  [][\A s \in 1..MaxSubs :
       /\ subs[s].urls = {} /\ subs'[s].urls # {}
            => /\ subs[s].pc = "uploading"
               /\ subs'[s].up.ok = NumUploads
               /\ subs'[s].urls = FivePaths(s)
               /\ subs'[s].uploaded = FivePaths(s)
               /\ subs'[s].inserts = 0
       /\ subs'[s].inserts > subs[s].inserts
            => /\ subs[s].pc = "urls"
               /\ subs[s].urls = FivePaths(s)
               /\ subs'[s].inserts = 1
               /\ subs'[s].row.status = "pending"
       /\ subs[s].pc # "ok" /\ subs'[s].pc = "ok"
            => /\ subs[s].pc = "insert"
               /\ subs[s].inserts = 1 /\ subs'[s].inserts = 1
               /\ subs[s].urls = FivePaths(s)
               /\ step # STEP_NAMES.APPLICATION_COMPLETE
                    => step' = STEP_NAMES.APPLICATION_COMPLETE
       /\ subs[s].pc \in {"uploading", "urls", "insert"}
            /\ subs'[s].pc = subs[s].pc
            /\ step # STEP_NAMES.APPLICATION_COMPLETE
            /\ step' = STEP_NAMES.APPLICATION_COMPLETE
            => \E r \in 1..MaxSubs :
                 /\ subs[r].pc = "insert" /\ subs'[r].pc = "ok"
                 /\ subs[r].inserts = 1]_vars

\* a run has gone through: five uploads, the URLs, one insert, step complete
C2_Witness ==
  \E s \in 1..MaxSubs :
    /\ subs[s].pc = "ok"
    /\ subs[s].urls = FivePaths(s)
    /\ subs[s].inserts = 1
    /\ subs[s].row.status = "pending"
    /\ step = STEP_NAMES.APPLICATION_COMPLETE

\* C5: the step becomes complete only in the last step of a run whose five
\* uploads, URL request and insert all succeeded; and when a run fails, the
\* step is video verification afterwards and the run has shown an alert.
C5_CompleteOnlyOnSuccessElseVideo ==
  [][/\ step # STEP_NAMES.APPLICATION_COMPLETE /\ step' = STEP_NAMES.APPLICATION_COMPLETE
          => \E s \in 1..MaxSubs :
               /\ subs[s].pc = "insert" /\ subs'[s].pc = "ok"
               /\ subs[s].up.ok = NumUploads /\ subs[s].urls = FivePaths(s)
     /\ \A s \in 1..MaxSubs :
          subs[s].pc \in {"uploading", "urls", "insert"} /\ subs'[s].pc = "failed"
            => /\ step' = STEP_NAMES.VIDEO_VERIFICATION
               /\ Len(subs'[s].alerts) = 1]_vars

(***************************************************************************)
(* Properties of the video-capture component.                              *)
(***************************************************************************)
\* C6: one instance of the component invokes onComplete at most once, with
\* the blob of an earlier recording as video1 and the blob of a later one as
\* video2, and never while it is in its first recording or its error view.
C6_OnCompleteOnceWithBothBlobs ==
  /\ \A k \in Ages : completeCalls[k] <= 1
  /\ \A s \in 1..MaxSubs :
       subs[s].pc = "uploading"
         => 1 <= subs[s].videos[1] /\ subs[s].videos[1] < subs[s].videos[2]
  /\ showVideoVerification => completeCalls[0] = 0

(***************************************************************************)
(* Properties of the form steps.                                           *)
(***************************************************************************)
\* the letters of a string
LetterCount(str) == Cardinality({i \in 1..Len(str) : str[i] \in Letters})

\* the four validations, stated on the profile the form holds
NameValid ==
  LET name == Trim(personalInfo.firstName \o <<" ">> \o personalInfo.lastName)
  IN /\ LetterCount(name) >= 2
     /\ \E i \in 1..Len(name) : name[i] = " "

PhoneValid ==
  Cardinality({i \in 1..Len(personalInfo.phoneNumber) :
                 personalInfo.phoneNumber[i] \in Digits}) = 10

SSNValid ==
  Cardinality({i \in 1..Len(personalInfo.ssn) : personalInfo.ssn[i] \in Digits}) = 9

\* one "@", no white space, a non-empty local part and, after the "@", a "."
\* with a character before it and a character after it
EmailValid ==
  LET e == personalInfo.email
      ats == {i \in 1..Len(e) : e[i] = "@"}
  IN /\ Cardinality(ats) = 1
     /\ \A i \in 1..Len(e) : e[i] \notin Whitespace
     /\ \E at \in ats :
          /\ at > 1
          /\ \E dot \in (at + 2)..(Len(e) - 1) : e[dot] = "."

\* C3: handlePersonalInfoSubmit moves the step to documents only if the four
\* validations pass; if one fails the step stays personal and the error of
\* each failing field is set to its message.
C3_PersonalSubmitValidates ==
  [][lastOp' = "handlePersonalInfoSubmit" =>
       /\ step = STEP_NAMES.PERSONAL_DATA
       /\ step' = STEP_NAMES.ID_DOCUMENTS
            => NameValid /\ PhoneValid /\ SSNValid /\ EmailValid
       /\ ~(NameValid /\ PhoneValid /\ SSNValid /\ EmailValid)
            => /\ step' = STEP_NAMES.PERSONAL_DATA
               /\ ~NameValid => personalInfoErrors'.fullName \in {MsgNameShort, MsgNameParts}
               /\ ~PhoneValid => personalInfoErrors'.phoneNumber = MsgPhone
               /\ ~SSNValid => personalInfoErrors'.ssn = MsgSSN
               /\ ~EmailValid => personalInfoErrors'.email = MsgEmail
       /\ UNCHANGED personalInfo]_vars

\* the form was submitted with a valid name and e-mail but a short phone
\* number and a short SSN: it stays, with these two errors
C3_Witness ==
  /\ lastOp = "handlePersonalInfoSubmit"
  /\ step = STEP_NAMES.PERSONAL_DATA
  /\ Len(personalInfo.phoneNumber) = 9
  /\ Len(personalInfo.ssn) = 8
  /\ personalInfoErrors =
       [fullName |-> Null, phoneNumber |-> MsgPhone, ssn |-> MsgSSN, email |-> Null]

\* C4: handleDocumentsSubmit takes the step from documents to video if and
\* only if the front and the back image are both present when it runs, and
\* nothing else takes that transition.
C4_DocumentsSubmitIffBoth ==
  [][/\ lastOp' = "handleDocumentsSubmit"
          => /\ step = STEP_NAMES.ID_DOCUMENTS
             /\ step' = STEP_NAMES.VIDEO_VERIFICATION
                  <=> (frontId # Null /\ backId # Null)
             /\ step' \in {STEP_NAMES.ID_DOCUMENTS, STEP_NAMES.VIDEO_VERIFICATION}
     /\ step # STEP_NAMES.VIDEO_VERIFICATION /\ step' = STEP_NAMES.VIDEO_VERIFICATION
          => /\ lastOp' = "handleDocumentsSubmit"
             /\ frontId # Null /\ backId # Null]_vars

\* the transition was taken with two different images
C4_Witness ==
  /\ lastOp = "handleDocumentsSubmit"
  /\ step = STEP_NAMES.VIDEO_VERIFICATION
  /\ frontId = "img2"
  /\ backId = "img1"


(***************************************************************************)
(* Properties of the image-capture component.                              *)
(***************************************************************************)
AllRejected == \A j \in 1..NumConstraintSets : ~platform[j]

\* the sets an invocation tried before the one under trial were rejected,
\* every stream was acquired with the first set the platform accepts, and
\* an acquisition error is shown only on a platform that rejects every set
C7_TriedInOrder ==
  /\ \A k \in 1..Len(invs) : \A j \in 1..(invs[k].i - 1) : ~platform[j]
  /\ \A s \in 1..Len(streams) :
       \E j \in 1..NumConstraintSets, front \in BOOLEAN :
         /\ platform[j]
         /\ \A h \in 1..(j - 1) : ~platform[h]
         /\ streams[s].constraints = getConstraintSets(front)[j]
  /\ cameraError # Null => AllRejected

\* a step in which a getUserMedia call settles stops no stream; when it
\* acquires one, the invocation has ended and streamRef holds that stream
C7_SettleStep ==
  (invs' # invs /\ Len(invs') <= Len(invs)) =>
    /\ \A s \in 1..Len(streams) : streams'[s] = streams[s]
    /\ Len(streams') > Len(streams) =>
         /\ Len(invs') < Len(invs)
         /\ streamRef' = Len(streams')
         /\ streams'[streamRef'].live
    /\ Len(streams') = Len(streams) /\ Len(invs') < Len(invs) =>
         /\ AllRejected
         /\ camLife = "mounted" => cameraError' # Null

\* C7: initializeNativeCamera tries the constraint sets in list order and
\* ends holding the stream of the first set the platform accepts, having
\* made no further attempt and having stopped no stream while trying; it
\* reports an error only when every set was rejected.
C7_AcquiresFirstAcceptedSet ==
  [](C7_TriedInOrder) /\ [][C7_SettleStep]_vars

\* the platform rejects the first two sets and accepts the third, and the
\* acquisition has ended ready with the third set's stream
C7_Witness ==
  /\ camLife = "mounted"
  /\ ~platform[1] /\ ~platform[2] /\ platform[3]
  /\ useNativeCamera /\ invs = <<>>
  /\ Len(streams) = 1 /\ streamRef = 1 /\ videoSrc = 1
  /\ streams[1] = [live |-> TRUE,
                   constraints |-> getConstraintSets(isFrontCamera)[3]]
  /\ isVideoReady /\ ~isInitializing /\ cameraError = Null

\* C8: at every moment at most one stream acquired by the image-capture
\* component is live.
C8_AtMostOneLiveStream == Cardinality(LiveStreams) <= 1

\* C9: once the image-capture component is torn down, no stream it
\* acquired is live.
C9_NoLiveStreamAfterTeardown == camLife = "closed" => LiveStreams = {}

\* C10: when the fallback timeout fires on a react-webcam that has become
\* ready, the component stays on react-webcam.
C10_FallbackOnlyWhenStalled ==
  [][(Len(fallbackTimers') < Len(fallbackTimers)
        /\ camLife = "mounted" /\ ~useNativeCamera
        /\ webcam = "ready" /\ isVideoReady)
      => ~useNativeCamera']_vars


\* C11: captureImage grabs a frame, and onCapture is reached, only when
\* isVideoReady is true and the lighting heuristic allows a capture
\* (lightingQuality.canCapture) or the override (forceCapture) is active.
C11_CaptureNeedsReadinessAndLighting ==
  [][/\ shots' > shots
          => /\ isVideoReady
             /\ lightingQuality.canCapture \/ forceCapture
     /\ captured' > captured => shots > 0 \/ compressing > 0]_vars

\* a capture was accepted on the heuristic's flag alone
C11_Witness ==
  /\ shots = 1 /\ isCapturing
  /\ isVideoReady /\ lightingQuality.canCapture /\ ~forceCapture


\* C12: with the override active and the stream ready, the capture control
\* is enabled whatever the lighting loop makes of the frame it analyses,
\* also when it classifies the frame with canCapture false.
C12_OverrideEnablesCapture ==
  [][(/\ forceCapture
      /\ lastFrame' # lastFrame
      /\ isVideoReady' /\ ~isInitializing' /\ ~isCapturing'
      /\ cameraError' = Null)
      => CaptureEnabled']_vars


(***************************************************************************)
(* Properties of the step pointer and the image slots.                     *)
(***************************************************************************)
\* a run of handleSubmission has started and not ended
InFlight == \E s \in 1..MaxSubs : subs[s].pc \in {"uploading", "urls", "insert"}

BackStep ==
  \/ step = STEP_NAMES.ID_DOCUMENTS /\ step' = STEP_NAMES.PERSONAL_DATA
  \/ step = STEP_NAMES.VIDEO_VERIFICATION /\ step' = STEP_NAMES.ID_DOCUMENTS

\* C13: while a submission is in flight no back-navigation changes the
\* step; otherwise the Back button of the video step is enabled whenever
\* the page is not covered by the video modal.
C13_NoBackWhileSubmitting ==
  /\ [](step = STEP_NAMES.VIDEO_VERIFICATION /\ ~InFlight
          /\ ~showVideoVerification => ~isSubmitting)
  /\ [][InFlight => ~BackStep]_vars


\* the position of a step in the linear order of the flow
StepOrder(s) ==
  CASE s = STEP_NAMES.PERSONAL_DATA -> 1
    [] s = STEP_NAMES.ID_DOCUMENTS -> 2
    [] s = STEP_NAMES.VIDEO_VERIFICATION -> 3
    [] s = STEP_NAMES.APPLICATION_COMPLETE -> 4

\* C14: the step pointer only moves between adjacent steps of the flow;
\* complete is entered only from video verification and is never left.
C14_StepsAdjacent ==
  [][/\ step' # step =>
          \/ StepOrder(step') = StepOrder(step) + 1
          \/ StepOrder(step') = StepOrder(step) - 1
     /\ step = STEP_NAMES.APPLICATION_COMPLETE
          => step' = STEP_NAMES.APPLICATION_COMPLETE]_vars


\* C15: an image slot that holds an image keeps that image: no later
\* operation replaces it, also after going back from the video step.
C15_ImageSlotsWriteOnce ==
  [][/\ frontId # Null => frontId' = frontId
     /\ backId # Null => backId' = backId]_vars


(***************************************************************************)
(* Further properties of the submission coordinator.                       *)
(***************************************************************************)
\* an upload, the signed-URL request or the insert of some run is unanswered
CallOutstanding ==
  \E s \in 1..MaxSubs :
    subs[s].up.pending > 0 \/ subs[s].pc \in {"urls", "insert"}

\* C16: while a call of a submission is outstanding the submitting flag is
\* set, so that Continue and the video step's Back button are disabled --
\* also when one upload has failed and others are still outstanding.
C16_SubmittingWhileCallsOutstanding ==
  CallOutstanding => isSubmitting

AbortMessages == {MsgUpload, MsgUrls, MsgInsert, MsgGeneric}

RunInFlight(run) == run.pc \in {"uploading", "urls", "insert"}

\* what a run has issued besides its uploads, and what it has reported
RunIssued(run) == <<run.uploaded, run.urls, run.inserts, run.row>>

\* C17: when a step of a submission fails the run aborts: it issues no later
\* step (no signed-URL request after a failed upload, no insert after a failed
\* upload or URL request, nothing at all once failed), raises exactly one
\* alert with the error's message or the generic text, clears the submitting
\* flag, and the paths it uploaded stay as they are.
C17_AbortOnFailure ==
  [][\A s \in 1..MaxSubs :
       /\ (RunInFlight(subs[s]) /\ subs'[s].pc = "failed") =>
            /\ RunIssued(subs'[s]) = RunIssued(subs[s])
            /\ subs[s].pc = "uploading" => subs'[s].urls = {} /\ subs'[s].inserts = 0
            /\ subs[s].pc = "urls" => subs'[s].inserts = 0
            /\ subs[s].alerts = <<>>
            /\ Len(subs'[s].alerts) = 1
            /\ subs'[s].alerts[1] \in AbortMessages
            /\ ~isSubmitting'
       /\ (subs[s].pc = "failed" /\ subs'[s].pc = "failed") =>
            /\ RunIssued(subs'[s]) = RunIssued(subs[s])
            /\ subs'[s].alerts = subs[s].alerts]_vars

C17_Witness ==
  \E s \in 1..MaxSubs :
    /\ subs[s].pc = "failed"
    /\ subs[s].alerts = <<MsgUpload>>
    /\ subs[s].up.pending = 0
    /\ subs[s].urls = {} /\ subs[s].inserts = 0
    /\ ~isSubmitting

\* the failure categories are the error names: permission denied is
\* NotAllowedError, no camera found NotFoundError, constraints not supported
\* OverconstrainedError, browser unsupported NotSupportedError, and every
\* other failure is generic
CategoriesOfNative(message) ==
  {name \in ErrorNames : nativeErrorMessage(name) = message}

CategoriesOfWebcam(message) ==
  {name \in ErrorNames : webcamErrorMessage(name) = message}

\* C18: a failure of a category on the acquisition path in use leaves in
\* cameraError a message that no other category yields on that path, so the
\* message shown stands for exactly one of the five categories.
C18_DistinctMessagePerCategory ==
  cameraError # Null =>
    \/ Cardinality(CategoriesOfNative(cameraError)) = 1
    \/ Cardinality(CategoriesOfWebcam(cameraError)) = 1

\* every sampled pixel of the frame has luma v
UniformLuma(frame, v) ==
  /\ frame # <<>>
  /\ \A i \in 1..Len(frame) : Luminance(frame[i]) = v

\* mean luma about 128 (120 to 136) and a contrast above what the heuristic
\* asks of a well-lit frame
MidLumaHighVariance(frame) ==
  /\ frame # <<>>
  /\ LET m == analyzeLightingQuality(frame)
     IN  AverageAbove(m, 119) /\ AverageBelow(m, 137) /\ ContrastAbove(m, 20)

\* C19: after the lighting loop has analysed a frame, a frame of luma 0 at
\* every sampled pixel is classified very-poor or poor, a frame of mean luma
\* about 128 with high variance good or excellent, and a frame of luma 255 at
\* every sampled pixel poor.
C19_SyntheticFrames ==
  /\ UniformLuma(lastFrame, 0) => lightingQuality.level \in {"very-poor", "poor"}
  /\ MidLumaHighVariance(lastFrame) => lightingQuality.level \in {"good", "excellent"}
  /\ UniformLuma(lastFrame, 255) => lightingQuality.level = "poor"

C19_Witness ==
  /\ MidLumaHighVariance(lastFrame)
  /\ lightingQuality.level = "excellent"
  /\ lightingQuality.canCapture

\* C20: for the applicant Jane Doe (phone 5551234567, SSN 123456789, email
\* jane@x.com, state Arizona) with two images and two videos, and a storage
\* and database that accept every request, no run of handleSubmission fails
\* or alerts, and a finished run has issued exactly one insert, of a row of
\* status pending with her data, and has five accepted uploads, all under the
\* run's one folder key.
C20_JaneDoeSubmits ==
  \A s \in 1..MaxSubs :
    /\ subs[s].pc # "failed"
    /\ subs[s].alerts = <<>>
    /\ subs[s].pc = "ok" =>
         /\ subs[s].inserts = 1
         /\ subs[s].row.status = "pending"
         /\ subs[s].row.first_name = <<"J","a","n","e">>
         /\ subs[s].row.last_name = <<"D","o","e">>
         /\ subs[s].row.phone_number = <<"5","5","5","1","2","3","4","5","6","7">>
         /\ subs[s].row.state = "Arizona"
         /\ subs[s].up = [ok |-> NumUploads, failed |-> 0, pending |-> 0]
         /\ Cardinality(subs[s].uploaded) = 5
         /\ Cardinality({path[1] : path \in subs[s].uploaded}) = 1

C20_Witness ==
  \E s \in 1..MaxSubs :
    /\ subs[s].pc = "ok"
    /\ step = STEP_NAMES.APPLICATION_COMPLETE
    /\ personalInfo.ssn = <<"1","2","3","4","5","6","7","8","9">>
    /\ personalInfo.email = <<"j","a","n","e","@","x",".","c","o","m">>
    /\ frontId = "img1" /\ backId = "img2"
    /\ subs[s].videos = <<1, 2>>
    /\ Cardinality(subs[s].uploaded) = 5

\* the paths this code has uploaded to
UploadedPaths ==
  monUploads \cup UNION {subs[s].uploaded : s \in 1..MaxSubs}

\* C21: every path the code uploads to -- the five of a submission and the one
\* of the monitor's upload test -- is <folder>/<file> with a folder named
\* application_* and so writable under the storage policy, and the five paths
\* of one submission share one folder key.
C21_UploadPathsWritable ==
  /\ \A path \in UploadedPaths : WritableByPolicy(path)
  /\ \A s \in 1..MaxSubs :
       Cardinality({path[1] : path \in subs[s].uploaded}) <= 1

\* C22: once stop() has returned (and init() was not called again) the
\* monitor makes no further periodic health check, whatever the order of
\* stop() and the initialisations was.
C22_StopStopsMonitoring ==
  [][monStopped /\ monStopped' => healthChecks' = healthChecks]_vars

\* C23: while the component stays mounted, a recording in progress is stopped
\* through stopRecording only by its own 7 s limit: a step that stops the
\* recorder clears or fires no timeout but the one armed at that recording's
\* start -- also when an earlier recording ended with a recorder error and
\* left its timeout armed.
C23_OnlyOwnTimeoutStops ==
  [][\A r \in recs :
       (/\ r.st = "recording" /\ r.age = 0
        /\ showVideoVerification /\ showVideoVerification'
        /\ [r EXCEPT !.st = "stopping"] \in recs')
         => (timers \ timers') \subseteq {r.blob}]_vars

\* C24: a recorder that was recording when the user closed the surface (in
\* the first or in the second recording) never leads to a call of onComplete
\* or to a submission when its stop event is delivered; a surface closed in
\* the error display has no recorder left that could.
C24_NoCompletionAfterClose ==
  [][\A r \in recs :
       r.closed /\ r \notin recs' =>
         /\ completeCalls' = completeCalls
         /\ subs' = subs
         /\ isSubmitting' = isSubmitting]_vars

\* C25: whenever the camera view is shown with the webcam ready, in the first
\* as in the second recording sub-state, the checkFacePosition loop is
\* scheduled, so that isFaceDetected, which gates startRecording, follows the
\* current frames.
C25_FaceLoopRunsWhileCameraShown ==
  (/\ showVideoVerification
   /\ vvWebcam = "ready"
   /\ currentStep \in {VIDEO_SUB_STEPS.FIRST_VIDEO_RECORDING,
                        VIDEO_SUB_STEPS.SECOND_VIDEO_RECORDING})
    => faceLoop

\* C26: at most one submission is in flight at any time: no run of
\* handleSubmission is started while another is between its start and its
\* end.
C26_OneSubmissionInFlight ==
  Cardinality({s \in 1..MaxSubs : RunInFlight(subs[s])}) <= 1

\* C27: the row a run hands to insert, for a profile that passed the
\* validation of the personal-details form (its required address included),
\* satisfies the insert policy: first_name, last_name, address, city, state
\* and phone_number are non-null and non-empty.
C27_RowSatisfiesInsertPolicy ==
  \A s \in 1..MaxSubs :
    subs[s].inserts > 0 =>
      (subs[s].row.address # <<>> => SatisfiesInsertPolicy(subs[s].row))

\* C28: whenever the step goes from personal details to document upload, the
\* firstName and the lastName the form controller holds are both non-empty,
\* whatever text was entered in the full-name field.
C28_BothNamesAtTransition ==
  [][(step = STEP_NAMES.PERSONAL_DATA /\ step' = STEP_NAMES.ID_DOCUMENTS)
       => personalInfo'.firstName # <<>> /\ personalInfo'.lastName # <<>>]_vars

\* C29: a capture that obtained no frame, or whose JPEG re-encoding or
\* compression failed, ends with an error and without a call of onCapture;
\* onCapture is called only for a capture whose encoding succeeded, and at
\* most once for each accepted capture action.
C29_OnCaptureOnlyWhenEncoded ==
  [][/\ captured' > captured
          => /\ captureOutcome' = "encoded"
             /\ captured' = captured + 1
             /\ shots' = shots - 1 \/ compressing' = compressing - 1
     /\ (captureOutcome' # captureOutcome /\ captureOutcome' # "encoded")
          => captured' = captured]_vars

\* C30: a tick of the lighting loop is scheduled exactly while the component
\* is mounted with the stream ready -- whatever the ticks so far met: frames
\* of zero dimensions, pixel reads that threw, frames analysed -- and no tick
\* is scheduled once the surface is closed; a tick never sets cameraError.
C30_LightLoopWhileReady ==
  /\ [](lightLoop <=> (camLife = "mounted" /\ isVideoReady))
  /\ [][lastFrame' # lastFrame => cameraError' = cameraError]_vars

C30_Witness ==
  /\ camLife = "mounted" /\ isVideoReady /\ lightLoop
  /\ useNativeCamera /\ lastFrame # <<>>
  /\ cameraError = Null

====
